---------------------------- MODULE Spec2Model ----------------------------
(***************************************************************************)
(* A model of the VRC camera-control bridge:                               *)
(*   - spout-bridge.js: the capture fallback chain, the MJPEG stream       *)
(*     parser of each backend's stdout, and the /mjpeg viewers;            *)
(*   - server.js (and its older fov deployment): the OSC codec, the camera *)
(*     state, the inbound OSC handler and the /api/move handler.           *)
(*                                                                         *)
(* Each Node.js callback runs to completion, so one action is one callback *)
(* together with every promise continuation (microtask) it triggers.       *)
(***************************************************************************)
EXTENDS Integers, Sequences, FiniteSets, TLC

VARIABLES
    \* ---- spout-bridge.js ----
    mode,                \* CAPTURE_MODE
    ffmpegFound,         \* whether the execSync("ffmpeg -version") search finds a binary
    procs,               \* every child process spawned so far, in launch order
    captureProcess,      \* the global handle: 0 is null, else an index into procs
    currentFrameBuffer,  \* the global latest frame: <<>> is null
    timers,              \* pending setTimeout callbacks
    now,                 \* the clock, in seconds
    startup,             \* where the startSpoutCapture() promise chain is
    exitStatus,          \* "running", "closing", or the status process.exit() was called with
    committed,           \* history: the process whose probe resolved true (0: none)
    overlapped,          \* history: some launch found an earlier process alive and un-killed
    published,           \* history: how many frames were published, and the last one
    viewers,             \* the /mjpeg connections
    \* ---- one stream parser fed a byte stream in chunks ----
    dmInput,             \* the bytes the process has still to write
    dmBuffer,            \* the parser's accumulation buffer
    dmFrameCount,        \* the parser's frameCount
    dmFrames,            \* history: the frames published so far, in order
    dmWhole,             \* history: the whole byte stream
    dmChunks,            \* history: the number of chunks fed so far
    \* ---- server.js: the OSC codec ----
    oscIn,               \* the message handed to buildOscMessage
    oscWire,             \* the datagram
    oscOut,              \* what parseOscMessage returns for the datagram
    oscPc,               \* "new", "built" or "received", "parsed"
    \* ---- server.js: the camera ----
    deployment,          \* which server runs: "server.js" or the older "part_000"
    state,               \* the camera state of server.js
    fovState,            \* the camera state of the older deployment (fov)
    cfg,                 \* the OSC target: cfg.oscHost and cfg.oscPort
    oscSent,             \* the datagrams the last broadcastState() handed to the socket
    lastRequest,         \* history: the handler that ran last and its zoom input
    \* ---- server.js: the network, the sessions and the HTTP endpoints ----
    inFlight,            \* datagrams queued at the socket of oscReceiver, oldest first
    activeSessions,      \* the set of session tokens
    issued,              \* history: how many tokens createSession() has generated
    cookie,              \* the session cookie of the request being made (0: none)
    allowPublicViewing,  \* serverConfig.allowPublicViewing
    proxy                \* one GET /api/spout request and its upstream request

captureVars == <<mode, ffmpegFound, procs, captureProcess, currentFrameBuffer,
                 timers, now, startup, exitStatus, committed, overlapped, published>>

demuxVars == <<dmInput, dmBuffer, dmFrameCount, dmFrames, dmWhole, dmChunks>>
oscVars == <<oscIn, oscWire, oscOut, oscPc>>
cameraVars == <<deployment, state, fovState, cfg, oscSent, lastRequest>>

webVars == <<inFlight, activeSessions, issued, cookie, allowPublicViewing, proxy>>

\* What spout-bridge.js never touches
serverSide == <<demuxVars, oscVars, cameraVars, webVars>>

vars == <<captureVars, viewers, demuxVars, oscVars, cameraVars, webVars>>

-----------------------------------------------------------------------------
(* Bounds of the model *)

MaxProcs == 4    \* child processes ever launched in one run
MaxTime == 7     \* seconds the clock runs for
MaxBuf == 5      \* bytes held in one parser's accumulation buffer
MaxFrames == 1   \* frames one parser counts
NViewers == 2    \* /mjpeg connections
MaxStreamFrames == 2   \* frames in the byte stream fed to one parser
MaxArgs == 2     \* arguments of an OSC message handed to buildOscMessage
MuxFrames == 3   \* frames published while viewers are attached
MaxTicks == 3    \* sendFrame() calls of one /mjpeg connection
MaxPose == 2     \* largest magnitude of a finite pose component (x, y, z, pitch, yaw, roll)
MaxPoseText == 4 \* longest text held by a pose component
MaxNoise == 4    \* bytes of a stream without a start marker

-----------------------------------------------------------------------------
(* Bytes and buffers.  Node's Buffer offsets are 0-based; sequences are     *)
(* 1-based, so byte i of a buffer b is b[i+1].                              *)

Min(S) == CHOOSE x \in S : \A y \in S : x <= y

SOI == <<255, 216>>   \* Buffer.from([0xFF, 0xD8])
EOI == <<255, 217>>   \* Buffer.from([0xFF, 0xD9])

\* buffer.indexOf(pattern, byteOffset) for a two-byte pattern
IndexOf(buffer, pattern, byteOffset) ==
    LET hits == {i \in byteOffset..(Len(buffer) - 2) :
                    buffer[i + 1] = pattern[1] /\ buffer[i + 2] = pattern[2]}
    IN  IF hits = {} THEN -1 ELSE Min(hits)

\* buffer.slice(start, end) and buffer.slice(start)
Slice(buffer, start, end) == SubSeq(buffer, start + 1, end)
SliceFrom(buffer, start) == SubSeq(buffer, start + 1, Len(buffer))


-----------------------------------------------------------------------------
(* The MJPEG stream parser: the stdout 'data' handler that every backend    *)
(* registers (the same text four times in spout-bridge.js).                 *)

\* The while loop of the handler.  The result carries the loop's variables
\* when it ends (by its condition or by a break), and the frames it assigned
\* to currentFrameBuffer, in order.
RECURSIVE ParseLoop(_, _, _, _)
ParseLoop(buffer, startIndex, frameCount, frames) ==
    IF ~(startIndex < Len(buffer))
    THEN [buffer |-> buffer, startIndex |-> startIndex,
          frameCount |-> frameCount, frames |-> frames]
    ELSE LET jpegStart == IndexOf(buffer, SOI, startIndex) IN
         IF jpegStart = -1
         THEN [buffer |-> SliceFrom(buffer, startIndex), startIndex |-> startIndex,
               frameCount |-> frameCount, frames |-> frames]
         ELSE LET jpegEnd == IndexOf(buffer, EOI, jpegStart + 2) IN
              IF jpegEnd = -1
              THEN [buffer |-> SliceFrom(buffer, jpegStart), startIndex |-> startIndex,
                    frameCount |-> frameCount, frames |-> frames]
              ELSE LET frameEnd == jpegEnd + 2
                       frame == Slice(buffer, jpegStart, frameEnd)
                   IN  ParseLoop(buffer, frameEnd, frameCount + 1, Append(frames, frame))

\* The handler if it never dropped the bytes it has consumed
ParseChunk_keepAll(buffer, chunk, frameCount) ==
    LET r == ParseLoop(buffer \o chunk, 0, frameCount, <<>>)
    IN  [buffer |-> buffer \o chunk, frameCount |-> r.frameCount, frames |-> r.frames]

\* A handler that takes a frame to run from the first start marker to the
\* last end marker in the buffer
ParseChunk_greedy(buffer, chunk, frameCount) ==
    LET b == buffer \o chunk
        jpegStart == IndexOf(b, SOI, 0)
        ends == {i \in (jpegStart + 2)..(Len(b) - 2) : b[i + 1] = 255 /\ b[i + 2] = 217}
    IN  IF jpegStart = -1 \/ ends = {}
        THEN [buffer |-> b, frameCount |-> frameCount, frames |-> <<>>]
        ELSE LET jpegEnd == CHOOSE i \in ends : \A j \in ends : j <= i IN
             [buffer |-> SliceFrom(b, jpegEnd + 2),
              frameCount |-> frameCount + 1,
              frames |-> <<Slice(b, jpegStart, jpegEnd + 2)>>]

\* The whole handler: append the chunk, run the loop, then trim the buffer.
\* frames are the frames published by this call, in order; the last one is
\* what currentFrameBuffer holds when the handler returns.
ParseChunk(buffer, chunk, frameCount) ==
    LET r == ParseLoop(buffer \o chunk, 0, frameCount, <<>>)
    IN  [buffer |-> IF r.startIndex < Len(r.buffer)
                    THEN SliceFrom(r.buffer, r.startIndex)
                    ELSE <<>>,
         frameCount |-> r.frameCount,
         frames |-> r.frames]

\* currentFrameBuffer after a handler call that published these frames
Latest(current, frames) ==
    IF frames = <<>> THEN current ELSE frames[Len(frames)]

-----------------------------------------------------------------------------
(* Child processes and the capture functions.  The world W is the part of   *)
(* the state the capture functions change: the processes, the global       *)
(* captureProcess handle (cp), the pending timers, and the launch history. *)

NewProc(kind) ==
    [kind |-> kind, exited |-> FALSE, errored |-> FALSE, killed |-> FALSE,
     exitedActive |-> FALSE,   \* history: it exited while the manager was Active on it
     buffer |-> <<>>, frameCount |-> 0,
     hasReceivedFrames |-> FALSE, errorOccurred |-> FALSE]

\* A process that was spawned and has neither exited nor failed
Alive(p) == ~p.exited /\ ~p.errored

\* The processes that are alive and on which kill() was never called
Live(ps) == {i \in DOMAIN ps : Alive(ps[i]) /\ ~ps[i].killed}

World == [procs |-> procs, cp |-> captureProcess, timers |-> timers,
          overlapped |-> overlapped]

\* captureProcess = spawn(...)
Spawn(W, kind) ==
    [W EXCEPT !.procs = Append(@, NewProc(kind)),
              !.cp = Len(W.procs) + 1,
              !.overlapped = @ \/ Live(W.procs) # {}]

\* if (captureProcess) { captureProcess.kill(); captureProcess = null; }
KillAndClear(W) ==
    IF W.cp = 0 THEN W
    ELSE [W EXCEPT !.procs[W.cp].killed = TRUE, !.cp = 0]

SetTimeout(W, kind, proc, delay) ==
    [W EXCEPT !.timers = @ \cup {[kind |-> kind, proc |-> proc, due |-> now + delay]}]

ClearTimeout(W, kind, proc) ==
    [W EXCEPT !.timers = {t \in @ : ~(t.kind = kind /\ t.proc = proc)}]

\* startStreamCapture(): false when no ffmpeg is found, else spawn and true
startStreamCapture(W) ==
    IF ~ffmpegFound THEN [w |-> W, ret |-> FALSE]
    ELSE [w |-> Spawn(W, "stream"), ret |-> TRUE]

\* startDesktopCapture(ffmpeg): spawn(null, ...) throws, which the catch
\* turns into false
startDesktopCapture(W, ffmpeg) ==
    IF ~ffmpeg THEN [w |-> W, ret |-> FALSE]
    ELSE [w |-> Spawn(W, "desktop"), ret |-> TRUE]

\* startOBSCameraCapture(ffmpeg, cameraName)
startOBSCameraCapture(W) == [w |-> Spawn(W, "obs"), ret |-> TRUE]

\* startOBSCameraCaptureMode(ffmpegParam): obsCamera is whether the device
\* scan (or the OBS_CAMERA override) yields a camera name
startOBSCameraCaptureMode(W, ffmpegParam, obsCamera) ==
    LET ffmpeg == ffmpegParam \/ ffmpegFound IN
    IF ~ffmpeg THEN startDesktopCapture(W, FALSE)
    ELSE IF obsCamera THEN startOBSCameraCapture(W)
    ELSE startDesktopCapture(W, ffmpeg)

\* The second .then of startSpoutCapture: OBS virtual camera, then desktop.
\* The result names the resolution of the chain.
ObsStep(W, obsCamera) ==
    LET obs == startOBSCameraCaptureMode(W, TRUE, obsCamera) IN
    IF obs.ret
    THEN [w |-> obs.w, startup |-> "active", committed |-> obs.w.cp]
    ELSE LET desk == startDesktopCapture(obs.w, TRUE) IN
         IF desk.ret
         THEN [w |-> desk.w, startup |-> "active", committed |-> desk.w.cp]
         ELSE [w |-> desk.w, startup |-> "failed", committed |-> 0]

\* The first .then of startSpoutCapture after the direct probe failed:
\* start the stream and arm its 3 s check, or fall through to ObsStep
StreamStep(W, obsCamera) ==
    LET str == startStreamCapture(W) IN
    IF str.ret
    THEN [w |-> SetTimeout(str.w, "streamProbe", str.w.cp, 3),
          startup |-> "probingStream", committed |-> 0]
    ELSE ObsStep(str.w, obsCamera)

\* tryDirectSpoutCapture(ffmpeg): spawn, the 3 s no-frame timer, the 2 s probe
tryDirectSpoutCapture(W) ==
    LET w1 == Spawn(W, "spout")
        w2 == SetTimeout(w1, "testTimeout", w1.cp, 3)
    IN  SetTimeout(w2, "spoutProbe", w1.cp, 2)


-----------------------------------------------------------------------------
(* The /mjpeg viewers.  Each connection has its own response object and    *)
(* its own setInterval timer.  segs, declared and body describe what the   *)
(* latest sendFrame() call wrote; at and prevAt are history: the number of *)
(* frames published when the latest and the previous call ran.  The        *)
(* connection's frameCount only feeds a log line and is left out.          *)

ViewerIds == 1..NViewers

NoViewer ==
    [attached |-> FALSE, interval |-> FALSE, open |-> FALSE,
     segs |-> 0, declared |-> 0, body |-> <<>>, at |-> 0, prevAt |-> 0,
     calls |-> 0]

-----------------------------------------------------------------------------
(* server.js: the OSC codec.  A datagram is a sequence of bytes.  A string  *)
(* is the sequence of its character codes (ASCII, so one byte each).  An    *)
(* argument value is a record [k, v, s] of a kind, an integer and a        *)
(* string: a float off the wire has k = "f" and v its 32-bit pattern read   *)
(* as a signed integer, an integer k = "i" and v its value, a string        *)
(* k = "s" and s its characters, a blob k = "b" and s its bytes, a boolean  *)
(* k = "bool" and v = 1 or 0.  The numbers of the camera state and of JSON  *)
(* bodies have k = "num" and v the value in tenths, k = "inf" and v = 1 or  *)
(* -1, or k = "nan".                                                        *)

Max(a, b) == IF a >= b THEN a ELSE b

\* Character codes of the type tags
Comma == 44
TagF == 102
TagI == 105
TagS == 115
TagB == 98
TagTrue == 84
TagFalse == 70

Zeros(n) == [j \in 1..n |-> 0]

\* No padding at all
pad4_none(n) == 0

pad4(n) == (4 - (n % 4)) % 4

writePaddedString(str) ==
    LET s == str \o <<0>>
        pad == pad4(Len(s))
    IN  IF pad = 0 THEN s ELSE s \o Zeros(pad)

\* writeInt32BE / writeFloatBE of a 32-bit pattern given as a signed integer:
\* most significant byte first, two's complement
Int32BE(n) ==
    <<(n \div 16777216) % 256, (n \div 65536) % 256, (n \div 256) % 256, n % 256>>

\* Finite numbers are kept in tenths (1.6 is 16)
Unit == 10

Fin(v) == [k |-> "num", v |-> v, s |-> <<>>]
Inf(sign) == [k |-> "inf", v |-> sign, s |-> <<>>]
NaN == [k |-> "nan", v |-> 0, s |-> <<>>]
Undefined == [k |-> "undefined", v |-> 0, s |-> <<>>]
Float(bits) == [k |-> "f", v |-> bits, s |-> <<>>]
Integer(i) == [k |-> "i", v |-> i, s |-> <<>>]
Str(str) == [k |-> "s", v |-> 0, s |-> str]
Blob(bytes) == [k |-> "b", v |-> 0, s |-> bytes]
Bool(b) == [k |-> "bool", v |-> IF b THEN 1 ELSE 0, s |-> <<>>]

\* typeof a === 'number'
IsNumber(a) == a.k \in {"num", "inf", "nan", "f", "i"}

Pow2(n) == 2 ^ n

\* The value of the float with a 32-bit pattern (sign, 8 bits of exponent,
\* 23 bits of mantissa), to the nearest tenth
FloatValue(bits) ==
    LET neg == bits < 0
        mag == IF neg THEN (bits + 2147483647) + 1 ELSE bits
        e == mag \div Pow2(23)
        m == mag % Pow2(23)
        sig == Pow2(23) + m
        shift == 150 - e
    IN  IF e = 255 THEN (IF m = 0 THEN Inf(IF neg THEN -1 ELSE 1) ELSE NaN)
        ELSE IF e = 0 \/ shift >= 30 THEN Fin(0)
        ELSE LET t == IF shift > 0
                      THEN (sig * Unit + Pow2(shift - 1)) \div Pow2(shift)
                      ELSE sig * Unit * Pow2(0 - shift)
             IN  Fin(IF neg THEN 0 - t ELSE t)

\* A number as a value in tenths, an infinity or NaN
Val(a) ==
    CASE a.k = "f" -> FloatValue(a.v)
      [] a.k = "i" -> Fin(a.v * Unit)
      [] OTHER -> a

RECURSIVE DigitsValue(_, _)
DigitsValue(str, acc) ==
    IF str = <<>> THEN acc ELSE DigitsValue(Tail(str), 10 * acc + (Head(str) - 48))

\* Number(str) for the empty string (0), a string of decimal digits, and a
\* string with a character that no numeric literal has (NaN)
StringToNumber(str) ==
    IF \A j \in DOMAIN str : str[j] \in 48..57
    THEN Fin(DigitsValue(str, 0) * Unit)
    ELSE NaN

\* Number(a); a Buffer converts through its toString()
ToNumber(a) ==
    CASE IsNumber(a) -> a
      [] a.k = "s" \/ a.k = "b" -> StringToNumber(a.s)
      [] a.k = "bool" -> Fin(a.v * Unit)
      [] OTHER -> NaN

\* The decimal digits of a natural number
RECURSIVE Digits(_)
Digits(n) == IF n < 10 THEN <<48 + n>> ELSE Digits(n \div 10) \o <<48 + (n % 10)>>

\* String(a): the text of a string or Buffer, of a boolean, of an integer,
\* of a number kept in tenths ("1", "-0.5", "Infinity", "NaN"), of undefined
RECURSIVE JsString(_)
JsString(a) ==
    CASE a.k = "s" \/ a.k = "b" -> a.s
      [] a.k = "i" -> IF a.v < 0 THEN <<45>> \o Digits(-a.v) ELSE Digits(a.v)
      [] a.k = "bool" -> IF a.v = 1 THEN <<116, 114, 117, 101>>         \* "true"
                         ELSE <<102, 97, 108, 115, 101>>            \* "false"
      [] a.k = "num" ->
            LET m == IF a.v < 0 THEN -a.v ELSE a.v IN
            (IF a.v < 0 THEN <<45>> ELSE <<>>) \o Digits(m \div Unit)
                \o (IF m % Unit = 0 THEN <<>> ELSE <<46, 48 + (m % Unit)>>)
      [] a.k = "inf" -> (IF a.v < 0 THEN <<45>> ELSE <<>>)
                            \o <<73, 110, 102, 105, 110, 105, 116, 121>>
      [] a.k = "nan" -> <<78, 97, 78>>
      [] a.k = "f" -> JsString(FloatValue(a.v))
      [] OTHER -> <<117, 110, 100, 101, 102, 105, 110, 101, 100>>

\* a + b for a number b: the sum of two numbers, and for a string or a
\* Buffer a the concatenation of the two texts
JsAdd(a, b) ==
    LET x == Val(a)
        y == Val(b)
    IN  CASE x.k = "s" \/ x.k = "b" -> Str(JsString(x) \o JsString(y))
          [] x.k = "nan" \/ y.k = "nan" -> NaN
          [] x.k = "inf" /\ y.k = "inf" -> IF x.v = y.v THEN x ELSE NaN
          [] x.k = "inf" -> x
          [] y.k = "inf" -> y
          [] OTHER -> Fin(x.v + y.v)

\* a < b for numbers: false when either is NaN
JsLess(a, b) ==
    LET x == Val(a)
        y == Val(b)
    IN  CASE x.k = "nan" \/ y.k = "nan" -> FALSE
          [] x.k = "inf" /\ y.k = "inf" -> x.v < y.v
          [] x.k = "inf" -> x.v < 0
          [] y.k = "inf" -> y.v > 0
          [] OTHER -> x.v < y.v

\* Math.min(a, b) and Math.max(a, b): the arguments go through Number(), and
\* the result is NaN when either is NaN
MathMin(a, b) ==
    LET x == Val(ToNumber(a))
        y == Val(ToNumber(b))
    IN  IF x.k = "nan" \/ y.k = "nan" THEN NaN ELSE IF JsLess(y, x) THEN y ELSE x

MathMax(a, b) ==
    LET x == Val(ToNumber(a))
        y == Val(ToNumber(b))
    IN  IF x.k = "nan" \/ y.k = "nan" THEN NaN ELSE IF JsLess(x, y) THEN y ELSE x

\* The next n mantissa bits of rem/den, eight at a time, and what is left
\* (den < 2^23)
RECURSIVE Mantissa(_, _, _, _)
Mantissa(rem, den, n, acc) ==
    IF n = 0 THEN [m |-> acc, rem |-> rem]
    ELSE LET step == IF n > 8 THEN 8 ELSE n
             r == rem * Pow2(step)
         IN  Mantissa(r % den, den, n - step, acc * Pow2(step) + (r \div den))

\* The largest e with den * 2^e <= num (for num >= den), and the smallest k
\* with num * 2^k >= den (for num < den)
RECURSIVE Log2Floor(_, _)
Log2Floor(num, den) == IF 2 * den > num THEN 0 ELSE 1 + Log2Floor(num, 2 * den)

RECURSIVE Log2Up(_, _)
Log2Up(num, den) == IF num >= den THEN 0 ELSE 1 + Log2Up(2 * num, den)

\* Exponent e and 23 mantissa bits d.m with remainder d.rem of den, rounded
\* to the nearest float, ties to the even mantissa
FloatRound(d, den, e) ==
    LET m == IF 2 * d.rem > den \/ (2 * d.rem = den /\ d.m % 2 = 1) THEN d.m + 1 ELSE d.m
    IN  IF m = Pow2(23) THEN (e + 128) * Pow2(23) ELSE (e + 127) * Pow2(23) + m

\* The pattern of num/den * 2^e, for den <= num < 2 * den
FloatNormal(num, den, e) == FloatRound(Mantissa(num - den, den, 23, 0), den, e)

FloatUp(a, e) == FloatNormal(a, Unit * Pow2(e), e)
FloatDown(a, k) == FloatNormal(a * Pow2(k), Unit, 0 - k)

\* The pattern of a positive value of a tenths
FloatMagnitude(a) ==
    IF a >= Unit THEN FloatUp(a, Log2Floor(a, Unit)) ELSE FloatDown(a, Log2Up(a, Unit))

\* FloatMagnitude of the tenths up to 200.0, computed once
FloatTable == [a \in 1..(200 * Unit) |-> FloatMagnitude(a)]

Magnitude(a) == IF a \in DOMAIN FloatTable THEN FloatTable[a] ELSE FloatMagnitude(a)

\* The 32-bit pattern writeFloatBE stores for a number
FloatBits(f) ==
    LET x == Val(f) IN
    CASE f.k = "f" -> f.v
      [] x.k = "nan" -> 255 * Pow2(23) + Pow2(22)
      [] x.k = "inf" -> IF x.v > 0 THEN 255 * Pow2(23) ELSE 0 - Pow2(23)
      [] x.v = 0 -> 0
      [] x.v < 0 -> (Magnitude(0 - x.v) - 2147483647) - 1
      [] OTHER -> Magnitude(x.v)

\* The 32-bit pattern writeInt32BE stores for a number: its integer part
IntBits(i) ==
    LET x == Val(i) IN
    CASE i.k = "i" -> i.v
      [] x.k = "num" -> IF x.v < 0 THEN 0 - ((0 - x.v) \div Unit) ELSE x.v \div Unit
      [] OTHER -> 0

floatToBuffer(f) == Int32BE(FloatBits(f))

intToBuffer(i) == Int32BE(IntBits(i))

\* The argument buffers of buildOscMessage, for types[i..] and args[i..]
RECURSIVE ArgBufs(_, _, _)
ArgBufs(types, args, i) ==
    IF i > Len(types) THEN <<>>
    ELSE LET t == types[i]
             a == args[i]
             buf == CASE t = TagF -> floatToBuffer(ToNumber(a))
                      [] t = TagI -> intToBuffer(ToNumber(a))
                      [] t = TagS -> writePaddedString(JsString(a))
                      [] t = TagTrue \/ t = TagFalse -> <<>>
                      [] OTHER -> writePaddedString(JsString(a))
         IN  buf \o ArgBufs(types, args, i + 1)

buildOscMessage(address, types, args) ==
    LET addressBuf == writePaddedString(address)
        typeTag == <<Comma>> \o types
        typeBuf == writePaddedString(typeTag)
    IN  addressBuf \o typeBuf \o ArgBufs(types, args, 1)

\* The argument buffers of the older deployment's buildOscMessage, which
\* has no branch for T and F
RECURSIVE ArgBufs_part000(_, _, _)
ArgBufs_part000(types, args, i) ==
    IF i > Len(types) THEN <<>>
    ELSE LET t == types[i]
             a == args[i]
             buf == CASE t = TagF -> floatToBuffer(ToNumber(a))
                      [] t = TagI -> intToBuffer(ToNumber(a))
                      [] t = TagS -> writePaddedString(JsString(a))
                      [] OTHER -> writePaddedString(JsString(a))
         IN  buf \o ArgBufs_part000(types, args, i + 1)

buildOscMessage_part000(address, types, args) ==
    LET addressBuf == writePaddedString(address)
        typeTag == <<Comma>> \o types
        typeBuf == writePaddedString(typeTag)
    IN  addressBuf \o typeBuf \o ArgBufs_part000(types, args, 1)

\* buffer.indexOf(value, byteOffset) for one byte; a negative byteOffset
\* counts from the end of the buffer
IndexOfByte(buffer, value, byteOffset) ==
    LET from == IF byteOffset < 0 THEN Max(0, Len(buffer) + byteOffset) ELSE byteOffset
        hits == {j \in from..(Len(buffer) - 1) : buffer[j + 1] = value}
    IN  IF hits = {} THEN -1 ELSE Min(hits)

\* Math.ceil(offset / 4) * 4
Ceil4(offset) == ((offset + 3) \div 4) * 4

\* buffer.slice(start, end) and buffer.toString('utf8', start, end) for
\* offsets that may be negative or past the end
BufSlice(buffer, start, end) ==
    LET n == Len(buffer)
        lo == IF start < 0 THEN Max(0, n + start) ELSE IF start > n THEN n ELSE start
        hi == IF end < 0 THEN Max(0, n + end) ELSE IF end > n THEN n ELSE end
    IN  SubSeq(buffer, lo + 1, hi)

BufToString(buffer, start, end) ==
    LET n == Len(buffer)
        lo == IF start < 0 THEN 0 ELSE IF start > n THEN n ELSE start
        hi == IF end < 0 THEN 0 ELSE IF end > n THEN n ELSE end
    IN  SubSeq(buffer, lo + 1, hi)

\* readInt32BE / readFloatBE: the 32-bit pattern at offset, as a signed integer
ReadInt32BE(buffer, offset) ==
    LET b0 == buffer[offset + 1]
    IN  (IF b0 >= 128 THEN b0 - 256 ELSE b0) * 16777216
        + buffer[offset + 2] * 65536 + buffer[offset + 3] * 256 + buffer[offset + 4]

\* The outcomes of parseOscMessage: a message, null, or an exception
\* (readFloatBE and readInt32BE throw a RangeError for a negative offset)
OscNull == [kind |-> "null", address |-> <<>>, types |-> <<>>, args |-> <<>>]
OscThrow == [kind |-> "throw", address |-> <<>>, types |-> <<>>, args |-> <<>>]
OscMsg(address, types, args) ==
    [kind |-> "msg", address |-> address, types |-> types, args |-> args]

\* The for loop of parseOscMessage from index i (0-based) and offset: the
\* args it ends with, and whether a read threw
RECURSIVE ParseArgs(_, _, _, _, _)
ParseArgs(buffer, types, i, offset, args) ==
    IF ~(i < Len(types) /\ offset < Len(buffer)) THEN [threw |-> FALSE, args |-> args]
    ELSE LET type == types[i + 1] IN
         CASE type = TagF \/ type = TagI ->
                IF offset + 4 > Len(buffer) THEN [threw |-> FALSE, args |-> args]
                ELSE IF offset < 0 THEN [threw |-> TRUE, args |-> args]
                ELSE ParseArgs(buffer, types, i + 1, offset + 4,
                        Append(args, IF type = TagF THEN Float(ReadInt32BE(buffer, offset))
                                     ELSE Integer(ReadInt32BE(buffer, offset))))
           [] type = TagS ->
                LET strEnd == IndexOfByte(buffer, 0, offset) IN
                IF strEnd = -1 THEN [threw |-> FALSE, args |-> args]
                ELSE ParseArgs(buffer, types, i + 1, Ceil4(strEnd + 1),
                        Append(args, Str(BufToString(buffer, offset, strEnd))))
           [] type = TagB ->
                IF offset + 4 > Len(buffer) THEN [threw |-> FALSE, args |-> args]
                ELSE IF offset < 0 THEN [threw |-> TRUE, args |-> args]
                ELSE LET blobSize == ReadInt32BE(buffer, offset)
                         start == offset + 4
                     IN  IF blobSize > Len(buffer) - start
                         THEN [threw |-> FALSE, args |-> args]
                         ELSE ParseArgs(buffer, types, i + 1, Ceil4(start + blobSize),
                                Append(args, Blob(BufSlice(buffer, start, start + blobSize))))
           [] OTHER -> ParseArgs(buffer, types, i + 1, offset, args)

parseOscMessage(buffer) ==
    LET addressEnd == IndexOfByte(buffer, 0, 0) IN
    IF addressEnd = -1 THEN OscNull
    ELSE LET address == BufToString(buffer, 0, addressEnd)
             offset == Ceil4(addressEnd + 1)
         IN  IF offset >= Len(buffer) THEN OscMsg(address, <<>>, <<>>)
             ELSE LET typeTagEnd == IndexOfByte(buffer, 0, offset) IN
                  IF typeTagEnd = -1 THEN OscNull
                  ELSE LET typeTag == BufToString(buffer, offset, typeTagEnd)
                           types == SubSeq(typeTag, 2, Len(typeTag))
                           r == ParseArgs(buffer, types, 0, Ceil4(typeTagEnd + 1), <<>>)
                       IN  IF r.threw THEN OscThrow
                           ELSE OscMsg(address, types, r.args)

-----------------------------------------------------------------------------
(* server.js and its older deployment part_000: the camera state, the       *)
(* outbound broadcast, the /api/move handler and the inbound OSC handler.   *)
(* A request is one action: the 'end' callback of collectRequestJson runs   *)
(* the whole handler, the clamp included, before any other callback.        *)

PoseFields == {"x", "y", "z", "pitch", "yaw", "roll"}

InitialState ==
    [x |-> Fin(0), y |-> Fin(16), z |-> Fin(0),
     pitch |-> Fin(0), yaw |-> Fin(0), roll |-> Fin(0), zoom |-> Fin(45 * Unit)]

InitialFovState ==
    [x |-> Fin(0), y |-> Fin(16), z |-> Fin(0),
     pitch |-> Fin(0), yaw |-> Fin(0), roll |-> Fin(0), fov |-> Fin(60 * Unit)]

ZoomMin == 20 * Unit
ZoomMax == 150 * Unit
FovMin == 1 * Unit
FovMax == 179 * Unit

\* cfg of server.js
addressPose == <<47, 117, 115, 101, 114, 99, 97, 109, 101, 114, 97, 47, 80, 111, 115, 101>>        \* "/usercamera/Pose"
addressZoom == <<47, 117, 115, 101, 114, 99, 97, 109, 101, 114, 97, 47, 90, 111, 111, 109>>        \* "/usercamera/Zoom"

\* cfg of part_000
addressPosition == <<47, 99, 97, 109, 101, 114, 97, 47, 112, 111, 115, 105, 116, 105, 111, 110>>    \* "/camera/position"
addressRotation == <<47, 99, 97, 109, 101, 114, 97, 47, 114, 111, 116, 97, 116, 105, 111, 110>>    \* "/camera/rotation"
addressFov == <<47, 99, 97, 109, 101, 114, 97, 47, 102, 111, 118>>                                    \* "/camera/fov"

\* cfg as the file sets it: oscHost '127.0.0.1', oscPort 9000
InitialCfg == [oscHost |-> Str(<<49, 50, 55, 46, 48, 46, 48, 46, 49>>),
               oscPort |-> Fin(9000 * Unit)]

\* oscSocket.send(msg, 0, msg.length, cfg.oscPort, cfg.oscHost, cb) does not
\* throw: the port is an integer within 1..65535 and the host is a string.
\* Every later failure goes to the callback, which logs it.
Sendable(c) ==
    /\ c.oscPort.k = "num" /\ c.oscPort.v % Unit = 0
    /\ c.oscPort.v >= Unit /\ c.oscPort.v <= 65535 * Unit
    /\ c.oscHost.k = "s"

\* The datagram sendOsc hands to the socket
sendOsc(address, types, args) == buildOscMessage(address, types, args)

\* A broadcast whose zoom datagram is built from the state variable as it
\* is before the triggering move, not from the state of the call
broadcastState_stale(s) ==
    <<sendOsc(addressPose, <<TagF, TagF, TagF, TagF, TagF, TagF>>,
              <<s.x, s.y, s.z, s.pitch, s.yaw, s.roll>>),
      sendOsc(addressZoom, <<TagF>>, <<state.zoom>>)>>

broadcastState(s) ==
    <<sendOsc(addressPose, <<TagF, TagF, TagF, TagF, TagF, TagF>>,
              <<s.x, s.y, s.z, s.pitch, s.yaw, s.roll>>),
      sendOsc(addressZoom, <<TagF>>, <<s.zoom>>)>>

broadcastStateFov(s) ==
    <<sendOsc(addressPosition, <<TagF, TagF, TagF>>, <<s.x, s.y, s.z>>),
      sendOsc(addressRotation, <<TagF, TagF, TagF>>, <<s.pitch, s.yaw, s.roll>>),
      sendOsc(addressFov, <<TagF>>, <<s.fov>>)>>

\* if (typeof v === 'number') field = v   and   if (typeof d === 'number') field += d
Assign(old, v) == IF IsNumber(v) THEN v ELSE old
AddTo(old, d) == IF IsNumber(d) THEN JsAdd(old, d) ELSE old

\* The two bounding statements that end the mutation, removed
boundZoom_removed(s) == s

\* if (state.zoom < 20) state.zoom = 20; if (state.zoom > 150) state.zoom = 150
boundZoom(s) ==
    LET s1 == IF JsLess(s.zoom, Fin(ZoomMin)) THEN [s EXCEPT !.zoom = Fin(ZoomMin)] ELSE s
    IN  IF JsLess(Fin(ZoomMax), s1.zoom) THEN [s1 EXCEPT !.zoom = Fin(ZoomMax)] ELSE s1

\* if (state.fov < 1) state.fov = 1; if (state.fov > 179) state.fov = 179
boundFov(s) ==
    LET s1 == IF JsLess(s.fov, Fin(FovMin)) THEN [s EXCEPT !.fov = Fin(FovMin)] ELSE s
    IN  IF JsLess(Fin(FovMax), s1.fov) THEN [s1 EXCEPT !.fov = Fin(FovMax)] ELSE s1

\* The state after the /api/move callback of server.js has run on a body
moveState(s, body) ==
    boundZoom(
        IF body.absolute
        THEN [x |-> Assign(s.x, body.x), y |-> Assign(s.y, body.y),
              z |-> Assign(s.z, body.z), pitch |-> Assign(s.pitch, body.pitch),
              yaw |-> Assign(s.yaw, body.yaw), roll |-> Assign(s.roll, body.roll),
              zoom |-> IF IsNumber(body.zoom)
                       THEN MathMax(Fin(ZoomMin), MathMin(Fin(ZoomMax), body.zoom))
                       ELSE s.zoom]
        ELSE [x |-> AddTo(s.x, body.dx), y |-> AddTo(s.y, body.dy),
              z |-> AddTo(s.z, body.dz), pitch |-> AddTo(s.pitch, body.dpitch),
              yaw |-> AddTo(s.yaw, body.dyaw), roll |-> AddTo(s.roll, body.droll),
              zoom |-> AddTo(s.zoom, body.dzoom)])

\* The state after the /api/move callback of part_000 has run on a body
moveFovState(s, body) ==
    boundFov(
        IF body.absolute
        THEN [x |-> Assign(s.x, body.x), y |-> Assign(s.y, body.y),
              z |-> Assign(s.z, body.z), pitch |-> Assign(s.pitch, body.pitch),
              yaw |-> Assign(s.yaw, body.yaw), roll |-> Assign(s.roll, body.roll),
              fov |-> Assign(s.fov, body.fov)]
        ELSE [x |-> AddTo(s.x, body.dx), y |-> AddTo(s.y, body.dy),
              z |-> AddTo(s.z, body.dz), pitch |-> AddTo(s.pitch, body.dpitch),
              yaw |-> AddTo(s.yaw, body.dyaw), roll |-> AddTo(s.roll, body.droll),
              fov |-> AddTo(s.fov, body.dfov)])

\* The state after the oscReceiver 'message' callback has run on a datagram.
\* A throw of parseOscMessage, or of toFixed() on a pose component that is
\* no number, is caught after the assignments
\* A handler that takes every address beginning with '/usercamera/Pose' for
\* the pose address
oscMessage_prefix(s, msg) ==
    LET parsed == parseOscMessage(msg)
        args == parsed.args
    IN  IF parsed.kind # "msg" THEN s
        ELSE IF Len(parsed.address) >= Len(addressPose)
                /\ SubSeq(parsed.address, 1, Len(addressPose)) = addressPose
                /\ Len(args) >= 6
        THEN [s EXCEPT !.x = args[1], !.y = args[2], !.z = args[3],
                       !.pitch = args[4], !.yaw = args[5], !.roll = args[6]]
        ELSE IF parsed.address = addressZoom /\ Len(args) >= 1
        THEN [s EXCEPT !.zoom = MathMax(Fin(ZoomMin), MathMin(Fin(ZoomMax), args[1]))]
        ELSE s

\* oscReceiver.on('message'): the state after the handler has run on msg
oscMessage(s, msg) ==
    LET parsed == parseOscMessage(msg)
        args == parsed.args
    IN  IF parsed.kind # "msg" THEN s
        ELSE IF parsed.address = addressPose /\ Len(args) >= 6
        THEN [s EXCEPT !.x = args[1], !.y = args[2], !.z = args[3],
                       !.pitch = args[4], !.yaw = args[5], !.roll = args[6]]
        ELSE IF parsed.address = addressZoom /\ Len(args) >= 1
        THEN [s EXCEPT !.zoom = MathMax(Fin(ZoomMin), MathMin(Fin(ZoomMax), args[1]))]
        ELSE s

-----------------------------------------------------------------------------
(* The parts of the state a specification leaves alone *)

DemuxIdle ==
    /\ dmInput = <<>> /\ dmBuffer = <<>> /\ dmFrameCount = 0
    /\ dmFrames = <<>> /\ dmWhole = <<>> /\ dmChunks = 0

OscIdle ==
    /\ oscIn = OscMsg(<<>>, <<>>, <<>>) /\ oscWire = <<>> /\ oscOut = OscNull
    /\ oscPc = "idle"

NoRequest == [kind |-> "none", zoom |-> Undefined]

CameraIdle ==
    /\ deployment = "server.js"
    /\ state = InitialState /\ fovState = InitialFovState /\ cfg = InitialCfg
    /\ oscSent = <<>> /\ lastRequest = NoRequest

NoProxy == [pc |-> "none", headersWritten |-> FALSE, res |-> "none", writeHeads |-> 0]

WebIdle ==
    /\ inFlight = <<>>
    /\ activeSessions = {} /\ issued = 0 /\ cookie = 0
    /\ allowPublicViewing = TRUE
    /\ proxy = NoProxy

BridgeIdle ==
    /\ mode = "camera" /\ ffmpegFound = TRUE /\ procs = <<>>
    /\ captureProcess = 0 /\ currentFrameBuffer = <<>> /\ timers = {}
    /\ now = 0 /\ startup = "init" /\ exitStatus = "running"
    /\ committed = 0 /\ overlapped = FALSE
    /\ published = [count |-> 0, frame |-> <<>>, from |-> 0]
    /\ viewers = [v \in ViewerIds |-> NoViewer]

-----------------------------------------------------------------------------
(* spout-bridge.js: start-up, timers and child-process events               *)

Modes == {"camera", "stream", "obs"}   \* CAPTURE_MODE; "camera" is automatic
ExitCodes == {"0", "1", "null"}        \* exit code 0, a non-zero code, null (a signal)

\* Chunks process i may write to stdout: a whole frame, or only the head of
\* one.  The payload byte names the process.
FrameOf(i) == SOI \o <<i>> \o EOI
ChunksOf(i) == {FrameOf(i), SOI \o <<i>>}

\* The process runs: "closing" is after SIGINT, while server.close() waits
\* for the open connections
Running == exitStatus \in {"running", "closing"}

SetWorld(W) ==
    /\ procs' = W.procs
    /\ captureProcess' = W.cp
    /\ timers' = W.timers
    /\ overlapped' = W.overlapped

\* The resolution of the promise chain, and the handler of the result at
\* the bottom of the file: process.exit(1) when it is false
Resolve(r) ==
    /\ SetWorld(r.w)
    /\ startup' = r.startup
    /\ committed' = r.committed
    /\ exitStatus' = IF r.startup = "failed" THEN "1" ELSE exitStatus

\* const captureResult = startSpoutCapture(); and the handling of a boolean result
Startup ==
    /\ Running /\ startup = "init"
    /\ \E obsCamera \in BOOLEAN :
        CASE mode = "stream" ->
                LET r == startStreamCapture(World) IN
                Resolve([w |-> r.w,
                         startup |-> IF r.ret THEN "active" ELSE "failed",
                         committed |-> IF r.ret THEN r.w.cp ELSE 0])
          [] mode = "obs" ->
                LET r == startOBSCameraCaptureMode(World, FALSE, obsCamera) IN
                Resolve([w |-> r.w,
                         startup |-> IF r.ret THEN "active" ELSE "failed",
                         committed |-> IF r.ret THEN r.w.cp ELSE 0])
          [] OTHER ->
                IF ~ffmpegFound
                THEN Resolve([w |-> World, startup |-> "failed", committed |-> 0])
                ELSE Resolve([w |-> tryDirectSpoutCapture(World),
                              startup |-> "probingSpout", committed |-> 0])
    /\ UNCHANGED <<mode, ffmpegFound, currentFrameBuffer, now, published, viewers, serverSide>>

\* Timers fire in the order of their due times
Due(t) == t \in timers /\ t.due <= now /\ \A u \in timers : t.due <= u.due

\* The clock advances only when no pending timer is due
Tick ==
    /\ Running /\ now < MaxTime
    /\ timers # {}
    /\ \A t \in timers : t.due > now
    /\ now' = now + 1
    /\ UNCHANGED <<mode, ffmpegFound, procs, captureProcess, currentFrameBuffer,
                   timers, startup, exitStatus, committed, overlapped, published, viewers, serverSide>>

\* testTimeout of tryDirectSpoutCapture (3 s): reads its own hasReceivedFrames
\* and the global captureProcess
TestTimeout ==
    /\ Running
    /\ \E t \in timers :
        /\ Due(t) /\ t.kind = "testTimeout"
        /\ timers' = timers \ {t}
        /\ procs' = IF ~procs[t.proc].hasReceivedFrames /\ captureProcess # 0
                    THEN [[procs EXCEPT ![t.proc].errorOccurred = TRUE]
                            EXCEPT ![captureProcess].killed = TRUE]
                    ELSE procs
    /\ UNCHANGED <<mode, ffmpegFound, captureProcess, currentFrameBuffer, now,
                   startup, exitStatus, committed, overlapped, published, viewers, serverSide>>

\* The 2 s probe of tryDirectSpoutCapture, with the .then continuations it runs
SpoutProbe ==
    /\ Running
    /\ \E t \in timers, obsCamera \in BOOLEAN :
        /\ Due(t) /\ t.kind = "spoutProbe"
        /\ LET W == [World EXCEPT !.timers = @ \ {t}]
               p == procs[t.proc]
           IN  IF p.hasReceivedFrames /\ ~p.errorOccurred /\ captureProcess # 0
               THEN Resolve([w |-> W, startup |-> "active", committed |-> t.proc])
               ELSE Resolve(StreamStep(KillAndClear(W), obsCamera))
    /\ UNCHANGED <<mode, ffmpegFound, currentFrameBuffer, now, published, viewers, serverSide>>

\* A stream check that waits another 3 s while no frame has arrived
StreamProbe_rearm ==
    /\ Running
    /\ \E t \in timers, obsCamera \in BOOLEAN :
        /\ Due(t) /\ t.kind = "streamProbe"
        /\ LET W == [World EXCEPT !.timers = @ \ {t}] IN
           IF currentFrameBuffer # <<>>
           THEN Resolve([w |-> W, startup |-> "active", committed |-> t.proc])
           ELSE Resolve([w |-> SetTimeout(W, "streamProbe", t.proc, 3),
                         startup |-> "probingStream", committed |-> 0])
    /\ UNCHANGED <<mode, ffmpegFound, currentFrameBuffer, now, published, viewers, serverSide>>

\* The 3 s check of the stream in startSpoutCapture, with its continuation
StreamProbe ==
    /\ Running
    /\ \E t \in timers, obsCamera \in BOOLEAN :
        /\ Due(t) /\ t.kind = "streamProbe"
        /\ LET W == [World EXCEPT !.timers = @ \ {t}] IN
           IF currentFrameBuffer # <<>>
           THEN Resolve([w |-> W, startup |-> "active", committed |-> t.proc])
           ELSE Resolve(ObsStep(KillAndClear(W), obsCamera))
    /\ UNCHANGED <<mode, ffmpegFound, currentFrameBuffer, now, published, viewers, serverSide>>

\* The reconnect timer without the test of CAPTURE_MODE
Reconnect_unguarded ==
    /\ Running
    /\ \E t \in timers :
        /\ Due(t) /\ t.kind = "reconnect"
        /\ Len(procs) < MaxProcs
        /\ SetWorld(startStreamCapture([World EXCEPT !.timers = @ \ {t}]).w)
    /\ UNCHANGED <<mode, ffmpegFound, currentFrameBuffer, now, startup, exitStatus,
                   committed, published, viewers, serverSide>>

\* The 2 s reconnect timer set by the stream's 'exit' handler
Reconnect ==
    /\ Running
    /\ \E t \in timers :
        /\ Due(t) /\ t.kind = "reconnect"
        /\ mode = "stream" => Len(procs) < MaxProcs
        /\ LET W == [World EXCEPT !.timers = @ \ {t}] IN
           SetWorld(IF mode = "stream" THEN startStreamCapture(W).w ELSE W)
    /\ UNCHANGED <<mode, ffmpegFound, currentFrameBuffer, now, startup, exitStatus,
                   committed, published, viewers, serverSide>>

\* stdout 'data' of process i, for a chunk of chunks(i): the parser, and for
\* the direct Spout process its hasReceivedFrames flag and clearTimeout
OnStdoutData(i, chunk, maxBuf, maxFrames) ==
    LET p == procs[i]
        r == ParseChunk(p.buffer, chunk, p.frameCount)
    IN  /\ Alive(p)
        /\ Len(p.buffer) + Len(chunk) <= maxBuf
        /\ r.frameCount <= maxFrames
        /\ procs' = [procs EXCEPT ![i] =
                        [p EXCEPT !.buffer = r.buffer,
                                  !.frameCount = r.frameCount,
                                  !.hasReceivedFrames = @ \/ p.kind = "spout"]]
        /\ timers' = IF p.kind = "spout"
                     THEN ClearTimeout(World, "testTimeout", i).timers
                     ELSE timers
        /\ currentFrameBuffer' = Latest(currentFrameBuffer, r.frames)
        /\ published' = IF r.frames = <<>> THEN published
                        ELSE [count |-> published.count + Len(r.frames),
                              frame |-> r.frames[Len(r.frames)],
                              from |-> i]
        /\ UNCHANGED <<mode, ffmpegFound, captureProcess, now, startup, exitStatus,
                       committed, overlapped, viewers, serverSide>>

StdoutData ==
    /\ Running
    /\ \E i \in DOMAIN procs : \E chunk \in ChunksOf(i) :
            OnStdoutData(i, chunk, MaxBuf, MaxFrames)

\* stderr 'data' of the direct Spout process with an error message in it
SpoutStderr ==
    /\ Running
    /\ \E i \in DOMAIN procs :
        /\ Alive(procs[i]) /\ procs[i].kind = "spout"
        /\ ~procs[i].errorOccurred
        /\ procs' = [procs EXCEPT ![i].errorOccurred = TRUE]
    /\ UNCHANGED <<mode, ffmpegFound, captureProcess, currentFrameBuffer, timers, now,
                   startup, exitStatus, committed, overlapped, published, viewers, serverSide>>

\* An 'exit' handler that also clears the latest frame
ProcessExit_clears ==
    /\ Running
    /\ \E i \in DOMAIN procs :
        /\ ~procs[i].exited
        /\ procs' = [procs EXCEPT ![i].exited = TRUE,
                                  ![i].exitedActive = startup = "active" /\ committed = i]
        /\ timers' = ClearTimeout(World, "testTimeout", i).timers
        /\ captureProcess' = 0
        /\ currentFrameBuffer' = <<>>
    /\ UNCHANGED <<mode, ffmpegFound, now, startup, exitStatus,
                   committed, overlapped, published, viewers, serverSide>>

\* 'exit' of process i with this exit code
ProcessExit ==
    /\ Running
    /\ \E i \in DOMAIN procs, code \in ExitCodes :
        LET p == procs[i]
            failed == code # "0" /\ code # "null"
        IN  /\ ~p.exited
            /\ procs' = [procs EXCEPT ![i] =
                            [p EXCEPT !.exited = TRUE,
                                      !.exitedActive = startup = "active" /\ committed = i,
                                      !.errorOccurred =
                                          IF p.kind = "spout"
                                          THEN @ \/ failed \/ ~p.hasReceivedFrames
                                          ELSE @]]
            /\ timers' = CASE p.kind = "spout" ->
                                ClearTimeout(World, "testTimeout", i).timers
                           [] p.kind = "stream" /\ failed ->
                                SetTimeout(World, "reconnect", i, 2).timers
                           [] OTHER -> timers
            /\ captureProcess' = 0
    /\ UNCHANGED <<mode, ffmpegFound, currentFrameBuffer, now, startup, exitStatus,
                   committed, overlapped, published, viewers, serverSide>>

\* SIGINT: kill() on the process captureProcess refers to, then server.close()
Sigint ==
    /\ Running
    /\ procs' = IF captureProcess = 0 THEN procs
                ELSE [procs EXCEPT ![captureProcess].killed = TRUE]
    /\ exitStatus' = "closing"
    /\ UNCHANGED <<mode, ffmpegFound, captureProcess, currentFrameBuffer, timers, now,
                   startup, committed, overlapped, published, viewers, serverSide>>

\* The callback of server.close(), once no connection is open: process.exit(0)
ServerClosed ==
    /\ exitStatus = "closing"
    /\ \A v \in ViewerIds : ~(viewers[v].attached /\ viewers[v].open)
    /\ exitStatus' = "0"
    /\ UNCHANGED <<mode, ffmpegFound, procs, captureProcess, currentFrameBuffer, timers,
                   now, startup, committed, overlapped, published, viewers, serverSide>>

\* 'error' of process i (it could not be spawned)
ProcessError ==
    /\ Running
    /\ \E i \in DOMAIN procs :
        LET p == procs[i] IN
        /\ Alive(p) /\ p.frameCount = 0 /\ p.buffer = <<>>
        /\ procs' = [procs EXCEPT ![i] =
                        [p EXCEPT !.errored = TRUE,
                                  !.errorOccurred = @ \/ p.kind = "spout"]]
        /\ captureProcess' = 0
    /\ UNCHANGED <<mode, ffmpegFound, currentFrameBuffer, timers, now, startup,
                   exitStatus, committed, overlapped, published, viewers, serverSide>>

InitCapture ==
    /\ mode \in Modes
    /\ ffmpegFound \in BOOLEAN
    /\ procs = <<>>
    /\ captureProcess = 0
    /\ currentFrameBuffer = <<>>
    /\ timers = {}
    /\ now = 0
    /\ startup = "init"
    /\ exitStatus = "running"
    /\ committed = 0
    /\ overlapped = FALSE
    /\ published = [count |-> 0, frame |-> <<>>, from |-> 0]
    /\ viewers = [v \in ViewerIds |-> NoViewer]
    /\ DemuxIdle /\ OscIdle /\ CameraIdle /\ WebIdle

NextCapture ==
    \/ Startup
    \/ Tick
    \/ TestTimeout
    \/ SpoutProbe
    \/ StreamProbe
    \/ Reconnect
    \/ StdoutData
    \/ SpoutStderr
    \/ ProcessExit
    \/ ProcessError
    \/ Sigint
    \/ ServerClosed

SpecCapture == InitCapture /\ [][NextCapture]_vars

\* The event loop runs every timer callback that is due, and the clock
\* advances; the start-up call is the synchronous top-level code of the file
TimersFire ==
    /\ WF_vars(Startup) /\ WF_vars(Tick)
    /\ WF_vars(TestTimeout) /\ WF_vars(SpoutProbe) /\ WF_vars(StreamProbe)
    /\ WF_vars(Reconnect)

SpecCaptureFair == SpecCapture /\ TimersFire


-----------------------------------------------------------------------------
(* spout-bridge.js: the /mjpeg endpoint                                     *)

\* A sendFrame() that keeps sending the frame the connection sent first
sendFrame_stale(v) ==
    IF currentFrameBuffer # <<>>
    THEN LET frame == IF v.body # <<>> THEN v.body ELSE currentFrameBuffer IN
         [v EXCEPT !.segs = 1, !.declared = Len(frame), !.body = frame,
                   !.prevAt = v.at, !.at = published.count,
                   !.calls = v.calls + 1]
    ELSE [v EXCEPT !.segs = 0, !.declared = 0, !.body = <<>>,
                   !.prevAt = v.at, !.at = published.count,
                   !.calls = v.calls + 1]

\* A sendFrame() that writes a frame only if one was published since the
\* connection's previous call
sendFrame_edge(v) ==
    IF currentFrameBuffer # <<>> /\ (v.calls = 0 \/ published.count > v.at)
    THEN [v EXCEPT !.segs = 1,
                   !.declared = Len(currentFrameBuffer),
                   !.body = currentFrameBuffer,
                   !.prevAt = v.at, !.at = published.count,
                   !.calls = v.calls + 1]
    ELSE [v EXCEPT !.segs = 0, !.declared = 0, !.body = <<>>,
                   !.prevAt = v.at, !.at = published.count,
                   !.calls = v.calls + 1]

\* sendFrame(): one multipart segment holding currentFrameBuffer, if there is one
sendFrame(v) ==
    IF currentFrameBuffer # <<>>
    THEN [v EXCEPT !.segs = 1,
                   !.declared = Len(currentFrameBuffer),
                   !.body = currentFrameBuffer,
                   !.prevAt = v.at, !.at = published.count,
                   !.calls = v.calls + 1]
    ELSE [v EXCEPT !.segs = 0, !.declared = 0, !.body = <<>>,
                   !.prevAt = v.at, !.at = published.count,
                   !.calls = v.calls + 1]

\* A GET /mjpeg request: the headers, a first sendFrame(), then setInterval
Attach ==
    /\ Running
    /\ \E v \in ViewerIds :
        /\ ~viewers[v].attached
        /\ viewers' = [viewers EXCEPT ![v] =
                          sendFrame([NoViewer EXCEPT !.attached = TRUE,
                                                     !.interval = TRUE,
                                                     !.open = TRUE])]
    /\ UNCHANGED <<captureVars, serverSide>>

\* One firing of a connection's 33 ms interval.  res.writableEnded is set
\* only by res.end(), which nothing calls on a /mjpeg response.
ViewerTick ==
    /\ Running
    /\ \E v \in ViewerIds :
        /\ viewers[v].interval
        /\ viewers[v].calls < MaxTicks
        /\ viewers' = [viewers EXCEPT ![v] = sendFrame(@)]
    /\ UNCHANGED <<captureVars, serverSide>>

\* The client closes the connection: the response emits 'close', for which
\* no handler is registered ('end' is an event of readable streams, which a
\* response never emits), and res.writableEnded stays false
ViewerClose ==
    /\ Running
    /\ \E v \in ViewerIds :
        /\ viewers[v].attached /\ viewers[v].open
        /\ viewers' = [viewers EXCEPT ![v].open = FALSE]
    /\ UNCHANGED <<captureVars, serverSide>>

\* The response emits 'error': clearInterval(interval)
ViewerError ==
    /\ Running
    /\ \E v \in ViewerIds :
        /\ viewers[v].attached /\ viewers[v].interval
        /\ viewers' = [viewers EXCEPT ![v].open = FALSE, ![v].interval = FALSE]
    /\ UNCHANGED <<captureVars, serverSide>>

\* Frames written to stdout while viewers are attached: one frame, another
\* frame, both in one chunk
MuxChunks == {SOI \o <<1>> \o EOI, SOI \o <<2>> \o EOI,
              SOI \o <<1>> \o EOI \o SOI \o <<2>> \o EOI}

MuxStdoutData ==
    /\ Running
    /\ \E i \in DOMAIN procs : \E chunk \in MuxChunks :
            OnStdoutData(i, chunk, Len(chunk), MuxFrames)

InitMux ==
    /\ mode = "obs"
    /\ ffmpegFound = TRUE
    /\ procs = <<>>
    /\ captureProcess = 0
    /\ currentFrameBuffer = <<>>
    /\ timers = {}
    /\ now = 0
    /\ startup = "init"
    /\ exitStatus = "running"
    /\ committed = 0
    /\ overlapped = FALSE
    /\ published = [count |-> 0, frame |-> <<>>, from |-> 0]
    /\ viewers = [v \in ViewerIds |-> NoViewer]
    /\ DemuxIdle /\ OscIdle /\ CameraIdle /\ WebIdle

NextMux ==
    \/ Startup
    \/ MuxStdoutData
    \/ ProcessExit
    \/ Attach
    \/ ViewerTick
    \/ ViewerClose
    \/ ViewerError
    \/ Sigint
    \/ ServerClosed

SpecMux == InitMux /\ [][NextMux]_vars


\* A connection that attached before any frame was published and whose
\* response then emitted 'error'
GoneViewer == [NoViewer EXCEPT !.attached = TRUE, !.calls = 1]

\* The automatic fallback chain with a viewer: the probes, the backends'
\* output and exits, and the viewer's interval.  The other connection has
\* come and gone.
InitStale ==
    /\ mode = "camera"
    /\ ffmpegFound = TRUE
    /\ procs = <<>>
    /\ captureProcess = 0
    /\ currentFrameBuffer = <<>>
    /\ timers = {}
    /\ now = 0
    /\ startup = "init"
    /\ exitStatus = "running"
    /\ committed = 0
    /\ overlapped = FALSE
    /\ published = [count |-> 0, frame |-> <<>>, from |-> 0]
    /\ viewers = [v \in ViewerIds |-> IF v = 1 THEN NoViewer ELSE GoneViewer]
    /\ DemuxIdle /\ OscIdle /\ CameraIdle /\ WebIdle

NextStale ==
    \/ Startup
    \/ Tick
    \/ TestTimeout
    \/ SpoutProbe
    \/ StreamProbe
    \/ Reconnect
    \/ StdoutData
    \/ ProcessExit
    \/ Attach
    \/ ViewerTick

SpecStale == InitStale /\ [][NextStale]_vars

-----------------------------------------------------------------------------
(* One stream parser fed a byte stream of concatenated frames, cut into     *)
(* chunks at arbitrary places (SpecDemux)                                   *)

\* Well-formed frames: start marker, payload without markers, end marker
StreamFrames == {SOI \o EOI, SOI \o <<1>> \o EOI, SOI \o <<2>> \o EOI}

RECURSIVE Concat(_)
Concat(ss) == IF ss = <<>> THEN <<>> ELSE Head(ss) \o Concat(Tail(ss))

\* Every concatenation of 1..MaxStreamFrames well-formed frames
DemuxStreams ==
    {Concat(fs) : fs \in UNION {[1..n -> StreamFrames] : n \in 1..MaxStreamFrames}}

InitDemux ==
    /\ dmWhole \in DemuxStreams
    /\ dmInput = dmWhole
    /\ dmBuffer = <<>>
    /\ dmFrameCount = 0
    /\ dmFrames = <<>>
    /\ dmChunks = 0
    /\ BridgeIdle /\ OscIdle /\ CameraIdle /\ WebIdle

\* stdout 'data' with the next n bytes of the stream as the chunk
Feed ==
    /\ \E n \in 1..Len(dmInput) :
        LET chunk == SubSeq(dmInput, 1, n)
            r == ParseChunk(dmBuffer, chunk, dmFrameCount)
        IN  /\ dmInput' = SubSeq(dmInput, n + 1, Len(dmInput))
            /\ dmBuffer' = r.buffer
            /\ dmFrameCount' = r.frameCount
            /\ dmFrames' = dmFrames \o r.frames
            /\ dmChunks' = dmChunks + 1
    /\ UNCHANGED <<dmWhole, captureVars, viewers, webVars, oscVars, cameraVars>>

NextDemux == Feed

SpecDemux == InitDemux /\ [][NextDemux]_vars

\* C3: once the whole stream has been fed, in whatever chunks, the frames
\* published are those a single whole-stream chunk publishes, in that order.
C3_ChunkingIrrelevant ==
    dmInput = <<>> => dmFrames = ParseChunk(<<>>, dmWhole, 0).frames

\* Every chunk fed so far was a single byte
ByteChunks == dmChunks = Len(dmWhole) - Len(dmInput)

\* The frames of the whole stream
WholeFrames == ParseChunk(<<>>, dmWhole, 0).frames

\* C26: when the bytes fed so far end inside a frame whose start marker has
\* arrived, the accumulation buffer is that frame's bytes from its start
\* marker to the last byte fed, whatever chunks they came in.
C26_PartialFrameRetained ==
    \A k \in 0..(Len(WholeFrames) - 1) :
        LET start == Len(Concat(SubSeq(WholeFrames, 1, k)))
            end == start + Len(WholeFrames[k + 1])
            fed == Len(dmWhole) - Len(dmInput)
        IN  (dmChunks > 0 /\ start + 2 <= fed /\ fed < end)
            => dmBuffer = SubSeq(dmWhole, start + 1, fed)

\* Streams without a start marker: 1..MaxNoise bytes out of 01, FF and D9
NoiseStreams == UNION {[1..n -> {1, 255, 217}] : n \in 1..MaxNoise}

InitNoise ==
    /\ dmWhole \in NoiseStreams
    /\ dmInput = dmWhole
    /\ dmBuffer = <<>>
    /\ dmFrameCount = 0
    /\ dmFrames = <<>>
    /\ dmChunks = 0
    /\ BridgeIdle /\ OscIdle /\ CameraIdle /\ WebIdle

NextNoise == Feed

SpecNoise == InitNoise /\ [][NextNoise]_vars

\* C27: after a chunk of a stream that holds no start marker, the
\* accumulation buffer is empty.
C27_NoStartDiscarded == dmChunks > 0 => dmBuffer = <<>>

MaxRaw == 6   \* bytes of an arbitrary stream of marker bytes

\* Arbitrary output of a backend: 1..MaxRaw bytes out of FF, D8 and D9
RawStreams == UNION {[1..n -> {255, 216, 217}] : n \in 1..MaxRaw}

InitRaw ==
    /\ dmWhole \in RawStreams
    /\ dmInput = dmWhole
    /\ dmBuffer = <<>>
    /\ dmFrameCount = 0
    /\ dmFrames = <<>>
    /\ dmChunks = 0
    /\ BridgeIdle /\ OscIdle /\ CameraIdle /\ WebIdle

NextRaw == Feed

SpecRaw == InitRaw /\ [][NextRaw]_vars

\* frame is the bytes of whole that begin at offset start
SpanAt(whole, start, frame) ==
    /\ start + Len(frame) <= Len(whole)
    /\ SubSeq(whole, start + 1, start + Len(frame)) = frame

\* A start marker, then the first end marker that begins at offset 2 or later
StartToFirstEnd(frame) ==
    /\ Len(frame) >= 4
    /\ SubSeq(frame, 1, 2) = SOI
    /\ SubSeq(frame, Len(frame) - 1, Len(frame)) = EOI
    /\ \A j \in 2..(Len(frame) - 3) : ~(frame[j + 1] = 255 /\ frame[j + 2] = 217)

\* C33: every value assigned to currentFrameBuffer is a span of the
\* backend's output of at least 4 bytes that begins with FF D8, ends with
\* FF D9 and holds no end marker from offset 2 to offset length-3, whatever
\* bytes the backend writes and in whatever chunks.
C33_FrameIsSpan ==
    \A i \in DOMAIN dmFrames :
        /\ StartToFirstEnd(dmFrames[i])
        /\ \E start \in 0..Len(dmWhole) : SpanAt(dmWhole, start, dmFrames[i])

\* C33 witness: the output FF D8 D9 FF D9 FF, fed in more than one chunk,
\* published the five-byte frame whose third byte D9 is no end marker
C33_Witness ==
    /\ dmWhole = <<255, 216, 217, 255, 217, 255>>
    /\ dmChunks > 1
    /\ dmFrames = << <<255, 216, 217, 255, 217>> >>

\* C11: when frames of S bytes each are streamed one byte per chunk, the
\* accumulation buffer holds at most S bytes after every chunk.
C11_BufferBound ==
    \A S \in 1..Len(dmWhole) :
        (ByteChunks /\ \A j \in DOMAIN WholeFrames : Len(WholeFrames[j]) = S)
        => Len(dmBuffer) <= S

\* Two frames of five bytes, fed byte by byte up to the last byte but one:
\* the first frame was published and the buffer holds the four bytes of the
\* second
C11_Witness ==
    /\ ByteChunks
    /\ Len(WholeFrames) = 2
    /\ \A j \in DOMAIN WholeFrames : Len(WholeFrames[j]) = 5
    /\ dmChunks = 9
    /\ Len(dmFrames) = 1
    /\ Len(dmBuffer) = 4

-----------------------------------------------------------------------------
(* The codec applied to messages of f, i, s, T and F arguments (SpecOsc)    *)

\* "/a", "/ab", "/abc": one address for each padding length but one
OscAddresses == {<<47, 97>>, <<47, 97, 98>>, <<47, 97, 98, 99>>}

\* A type code with a value for it: the floats 1.0 and -Infinity, the
\* integers 0, -1 and 2^31-1, the strings "", "a" and "abc", true, false,
\* and the codes b and x, which buildOscMessage has no branch for, with the
\* string "a" and the integer -1
TypedArgs ==
    {[t |-> TagF, a |-> Float(1065353216)],
     [t |-> TagF, a |-> Float(-8388608)],
     [t |-> TagI, a |-> Integer(0)],
     [t |-> TagI, a |-> Integer(-1)],
     [t |-> TagI, a |-> Integer(2147483647)],
     [t |-> TagS, a |-> Str(<<>>)],
     [t |-> TagS, a |-> Str(<<97>>)],
     [t |-> TagS, a |-> Str(<<97, 98, 99>>)],
     [t |-> TagTrue, a |-> Bool(TRUE)],
     [t |-> TagFalse, a |-> Bool(FALSE)],
     [t |-> TagB, a |-> Str(<<97>>)],
     [t |-> 120, a |-> Integer(-1)]}

OscInputs ==
    {OscMsg(address, [j \in DOMAIN tas |-> tas[j].t], [j \in DOMAIN tas |-> tas[j].a]) :
        address \in OscAddresses,
        tas \in UNION {[1..n -> TypedArgs] : n \in 0..MaxArgs}}

InitOsc ==
    /\ oscIn \in OscInputs
    /\ oscWire = <<>>
    /\ oscOut = OscNull
    /\ oscPc = "new"
    /\ deployment \in {"server.js", "part_000"}
    /\ state = InitialState /\ fovState = InitialFovState /\ cfg = InitialCfg
    /\ oscSent = <<>> /\ lastRequest = NoRequest
    /\ BridgeIdle /\ DemuxIdle /\ WebIdle

Build ==
    /\ oscPc = "new"
    /\ oscWire' = IF deployment = "server.js"
                  THEN buildOscMessage(oscIn.address, oscIn.types, oscIn.args)
                  ELSE buildOscMessage_part000(oscIn.address, oscIn.types, oscIn.args)
    /\ oscPc' = "built"
    /\ UNCHANGED <<oscIn, oscOut, captureVars, viewers, webVars, demuxVars, cameraVars>>

Parse ==
    /\ oscPc \in {"built", "received"}
    /\ oscOut' = parseOscMessage(oscWire)
    /\ oscPc' = "parsed"
    /\ UNCHANGED <<oscIn, oscWire, captureVars, viewers, webVars, demuxVars, cameraVars>>

NextOsc ==
    \/ Build
    \/ Parse

SpecOsc == InitOsc /\ [][NextOsc]_vars

\* C7: parsing the datagram built from an address and f, i, s, T, F arguments
\* gives back the address and the argument values, in order.
C7_RoundTrip ==
    oscPc = "parsed"
    => (/\ oscOut.kind = "msg"
        /\ oscOut.address = oscIn.address
        /\ oscOut.args = oscIn.args)

\* The two blocks buildOscMessage puts at the head of the datagram
AddressBlock == writePaddedString(oscIn.address)
TypeTagBlock == writePaddedString(<<Comma>> \o oscIn.types)

\* A block whose length is a multiple of 4 and whose last byte is NUL
Padded(block) == Len(block) % 4 = 0 /\ block # <<>> /\ block[Len(block)] = 0

\* C12: in every datagram built, the address block and the type-tag block
\* each have a length that is a multiple of 4 and end with a NUL.
C12_PaddingInvariant ==
    oscPc # "new"
    => (/\ Padded(AddressBlock)
        /\ Padded(TypeTagBlock)
        /\ Len(oscWire) >= Len(AddressBlock) + Len(TypeTagBlock)
        /\ SubSeq(oscWire, 1, Len(AddressBlock) + Len(TypeTagBlock))
             = AddressBlock \o TypeTagBlock)

\* A built datagram whose address takes three NULs of padding and whose type
\* tag takes one
C12_Witness ==
    /\ oscPc = "built"
    /\ Len(oscIn.address) = 4
    /\ Len(oscIn.types) = 2
    /\ Len(AddressBlock) = 8
    /\ Len(TypeTagBlock) = 4
    /\ Len(oscWire) > 12

\* The bytes the argument at position i of the request is to take on the wire
ArgBytes(i) ==
    LET t == oscIn.types[i]
        a == oscIn.args[i]
    IN  CASE t = TagF -> Int32BE(FloatBits(ToNumber(a)))
          [] t = TagI -> Int32BE(IntBits(ToNumber(a)))
          [] t = TagTrue \/ t = TagFalse -> <<>>
          [] OTHER -> JsString(a) \o Zeros(4 - (Len(JsString(a)) % 4))

\* C21: the datagram is the address block, the type-tag block listing every
\* requested code, then for each code in order: 4 big-endian bytes for f
\* and i, nothing for T and F, and the NUL-terminated text of the value
\* padded to a multiple of 4 for s and for any other code.
C21_ArgumentEncoding ==
    oscPc # "new"
    => oscWire = AddressBlock \o TypeTagBlock
                    \o Concat([i \in DOMAIN oscIn.types |-> ArgBytes(i)])

-----------------------------------------------------------------------------
(* parseOscMessage on datagrams as they arrive from the network (SpecParse) *)

\* The float 1.0 on the wire
OneFloat == <<63, 128, 0, 0>>

\* A blob argument on the wire: its size, its bytes, padding to 4
BlobBytes(bytes) == Int32BE(Len(bytes)) \o bytes \o Zeros(pad4(Len(bytes)))

\* Heads of a datagram: "/a" padded with NULs, and "/a" alone
RawAddresses == {<<47, 97, 0, 0>>, <<47, 97>>}

\* Type-tag blocks: none, one or two type characters after the comma, the
\* unknown character x, blocks without the comma, a block without its NUL
RawTypeTags ==
    {<<>>,
     <<Comma, TagF, 0, 0>>, <<Comma, TagI, 0, 0>>, <<Comma, TagS, 0, 0>>,
     <<Comma, TagB, 0, 0>>, <<Comma, TagB, TagF, 0>>, <<Comma, TagB, TagI, 0>>,
     <<Comma, 120, 0, 0>>, <<Comma, 120, TagF, 0>>,
     <<TagF, TagF, 0, 0>>, <<TagF, 0, 0, 0>>,
     <<Comma, TagTrue, 0, 0>>, <<Comma, TagFalse, 0, 0>>,
     <<Comma, TagTrue, TagFalse, 0>>, <<Comma, TagTrue, TagF, 0>>,
     <<Comma, TagF, TagFalse, 0>>, <<Comma, TagF>>}

\* Argument bytes: none, one float, half a float, two floats, a blob of one
\* byte and a float, blobs whose size prefix is -20, -1 and 100, the string "a"
RawPayloads ==
    {<<>>, OneFloat, <<63, 128>>, OneFloat \o OneFloat,
     BlobBytes(<<97>>) \o OneFloat,
     Int32BE(-20) \o OneFloat, Int32BE(-1) \o OneFloat,
     Int32BE(100) \o <<97>>,
     <<97, 0, 0, 0>>}

RawDatagrams ==
    {address \o typeTag \o payload :
        address \in RawAddresses, typeTag \in RawTypeTags, payload \in RawPayloads}

InitParse ==
    /\ oscIn = OscMsg(<<>>, <<>>, <<>>)
    /\ oscWire \in RawDatagrams
    /\ oscOut = OscNull
    /\ oscPc = "received"
    /\ BridgeIdle /\ DemuxIdle /\ CameraIdle /\ WebIdle

NextParse == Parse

SpecParse == InitParse /\ [][NextParse]_vars

\* The offsets parseOscMessage computes at the head of a datagram, and the
\* type-tag string it reads
addressEnd(buffer) == IndexOfByte(buffer, 0, 0)
typeTagOffset(buffer) == Ceil4(addressEnd(buffer) + 1)
typeTagEnd(buffer) == IndexOfByte(buffer, 0, typeTagOffset(buffer))
typeTag(buffer) == BufToString(buffer, typeTagOffset(buffer), typeTagEnd(buffer))
argsOffset(buffer) == Ceil4(typeTagEnd(buffer) + 1)

\* The address string, or the type-tag string, has no terminating NUL
Unterminated(buffer) ==
    \/ addressEnd(buffer) = -1
    \/ /\ typeTagOffset(buffer) < Len(buffer)
       /\ typeTagEnd(buffer) = -1

\* C18: parseOscMessage returns null exactly when the address or the type
\* tag has no terminating NUL, and for every other datagram returns a
\* message: it never throws.
C18_NullOnlyUnterminated ==
    oscPc = "parsed"
    => (/\ oscOut.kind = "null" <=> Unterminated(oscWire)
        /\ oscOut.kind # "throw")

\* C19: a type-tag block that does not begin with ',' resolves no argument.
C19_CommaRequired ==
    (/\ oscPc = "parsed"
     /\ ~Unterminated(oscWire)
     /\ typeTagOffset(oscWire) < Len(oscWire)
     /\ typeTag(oscWire) # <<>>
     /\ typeTag(oscWire)[1] # Comma)
    => oscOut.args = <<>>

\* The number of positions of a type list that hold this type character
CountOf(types, t) == Cardinality({j \in DOMAIN types : types[j] = t})

\* C20: when the type list holds only T, F and f, ends with f, and the
\* datagram holds exactly the four bytes of each f (so that every character
\* is resolved), the decoded arguments are as many as the characters, with
\* true at each T and false at each F.
C20_BooleansDecoded ==
    (/\ oscPc = "parsed"
     /\ oscOut.kind = "msg"
     /\ oscOut.types # <<>>
     /\ \A j \in DOMAIN oscOut.types : oscOut.types[j] \in {TagTrue, TagFalse, TagF}
     /\ oscOut.types[Len(oscOut.types)] = TagF
     /\ typeTag(oscWire)[1] = Comma
     /\ Len(oscWire) = argsOffset(oscWire) + 4 * CountOf(oscOut.types, TagF))
    => (/\ Len(oscOut.args) = Len(oscOut.types)
        /\ \A j \in DOMAIN oscOut.types :
              oscOut.types[j] \in {TagTrue, TagFalse}
                => (j \in DOMAIN oscOut.args
                    /\ oscOut.args[j] = Bool(oscOut.types[j] = TagTrue)))

-----------------------------------------------------------------------------
(* Requests and datagrams (SpecMoves, SpecCamera).  Every request carries a *)
(* valid session.                                                           *)

SomeString == <<97, 98, 99>>      \* "abc"
PoseStep == Fin(Unit)             \* 1.0

\* The numbers JSON.parse can give a zoom or fov field (1e999 parses to
\* Infinity), a string, and no field at all
ScalarInputs ==
    {Undefined, Fin(50 * Unit), Fin(0 - 50 * Unit), Fin(10000000 * Unit),
     Inf(1), Inf(-1), Str(SomeString)}

\* Which pose fields a body has: none, x (a string in delta mode), or all six
PoseParts == {"none", "x", "all"}

PoseX(absolute, pose) ==
    CASE pose = "all" -> PoseStep
      [] pose = "x" -> IF absolute THEN PoseStep ELSE Str(SomeString)
      [] OTHER -> Undefined

PoseRest(pose) == IF pose = "all" THEN PoseStep ELSE Undefined

\* A parsed body: absolute mode carries x..roll and zoom/fov, delta mode
\* carries dx..droll and dzoom/dfov
MakeBody(absolute, pose, scalar) ==
    LET a(v) == IF absolute THEN v ELSE Undefined
        d(v) == IF absolute THEN Undefined ELSE v
    IN  [absolute |-> absolute,
         x |-> a(PoseX(absolute, pose)), y |-> a(PoseRest(pose)), z |-> a(PoseRest(pose)),
         pitch |-> a(PoseRest(pose)), yaw |-> a(PoseRest(pose)),
         roll |-> a(PoseRest(pose)), zoom |-> a(scalar), fov |-> a(scalar),
         dx |-> d(PoseX(absolute, pose)), dy |-> d(PoseRest(pose)), dz |-> d(PoseRest(pose)),
         dpitch |-> d(PoseRest(pose)), dyaw |-> d(PoseRest(pose)),
         droll |-> d(PoseRest(pose)), dzoom |-> d(scalar), dfov |-> d(scalar)]

Bodies ==
    {MakeBody(absolute, pose, scalar) :
        absolute \in BOOLEAN, pose \in PoseParts, scalar \in ScalarInputs}

\* The finite pose components stay within MaxPose, the texts within MaxPoseText
PoseBounded(s) ==
    \A f \in PoseFields :
        LET x == Val(s[f]) IN
        /\ x.k = "num" => (x.v <= MaxPose * Unit /\ x.v >= 0 - MaxPose * Unit)
        /\ Len(x.s) <= MaxPoseText

\* POST /api/move where a throw of sendOsc undoes the mutation and is
\* answered with an error
Move_surfaced ==
    /\ deployment = "server.js"
    /\ \/ /\ lastRequest' = [kind |-> "bad json", zoom |-> Undefined]
          /\ UNCHANGED <<state, oscSent>>
       \/ \E body \in Bodies :
            \E s \in {moveState(state, body)} :
                /\ PoseBounded(s)
                /\ state' = IF Sendable(cfg) THEN s ELSE state
                /\ oscSent' = IF Sendable(cfg) THEN broadcastState(s) ELSE <<>>
                /\ lastRequest' =
                     [kind |-> IF ~Sendable(cfg) THEN "osc failure"
                               ELSE IF body.absolute THEN "absolute" ELSE "delta",
                      zoom |-> IF body.absolute THEN body.zoom ELSE body.dzoom]
    /\ UNCHANGED <<deployment, fovState, cfg, captureVars, viewers, webVars, demuxVars, oscVars>>

\* POST /api/move of server.js: no body or bad JSON answers 400; otherwise
\* mutate, bound, broadcast (a throw of the send is caught in sendOsc and
\* nothing reaches the socket), answer ok
Move ==
    /\ deployment = "server.js"
    /\ \/ /\ lastRequest' = [kind |-> "bad json", zoom |-> Undefined]
          /\ UNCHANGED <<state, oscSent>>
       \/ \E body \in Bodies :
            \E s \in {moveState(state, body)} :
                /\ PoseBounded(s)
                /\ state' = s
                /\ oscSent' = IF Sendable(cfg) THEN broadcastState(s) ELSE <<>>
                /\ lastRequest' =
                     [kind |-> IF body.absolute THEN "absolute" ELSE "delta",
                      zoom |-> IF body.absolute THEN body.zoom ELSE body.dzoom]
    /\ UNCHANGED <<deployment, fovState, cfg, captureVars, viewers, webVars, demuxVars, oscVars>>

\* POST /api/move of part_000
MoveFov ==
    /\ deployment = "part_000"
    /\ \/ /\ lastRequest' = [kind |-> "bad json", zoom |-> Undefined]
          /\ UNCHANGED <<fovState, oscSent>>
       \/ \E body \in Bodies :
            \E s \in {moveFovState(fovState, body)} :
                /\ PoseBounded(s)
                /\ fovState' = s
                /\ oscSent' = IF Sendable(cfg) THEN broadcastStateFov(s) ELSE <<>>
                /\ lastRequest' =
                     [kind |-> IF body.absolute THEN "absolute" ELSE "delta",
                      zoom |-> IF body.absolute THEN body.fov ELSE body.dfov]
    /\ UNCHANGED <<deployment, state, cfg, captureVars, viewers, webVars, demuxVars, oscVars>>

\* What a /api/config body may carry for oscHost and oscPort: no field, the
\* port 9001, the port 70000, the port "abc", the host 5
ConfigBodies ==
    {[oscHost |-> h, oscPort |-> q] :
        h \in {Undefined, Fin(5 * Unit)},
        q \in {Undefined, Fin(9001 * Unit), Fin(70000 * Unit), Str(SomeString)}}

\* POST /api/config of either deployment: if (body.oscHost) cfg.oscHost = ...;
\* if (body.oscPort) cfg.oscPort = Number(body.oscPort)
Config ==
    /\ \E body \in ConfigBodies :
        cfg' = [oscHost |-> IF body.oscHost.k = "undefined" THEN cfg.oscHost
                            ELSE body.oscHost,
                oscPort |-> IF body.oscPort.k = "undefined" THEN cfg.oscPort
                            ELSE ToNumber(body.oscPort)]
    /\ lastRequest' = [kind |-> "config", zoom |-> Undefined]
    /\ UNCHANGED <<deployment, state, fovState, oscSent, captureVars, viewers, webVars,
                   demuxVars, oscVars>>

InitMoves ==
    /\ deployment \in {"server.js", "part_000"}
    /\ state = InitialState
    /\ fovState = InitialFovState
    /\ cfg = InitialCfg
    /\ oscSent = <<>>
    /\ lastRequest = NoRequest
    /\ BridgeIdle /\ DemuxIdle /\ OscIdle /\ WebIdle

NextMoves ==
    \/ Move
    \/ MoveFov
    \/ Config

SpecMoves == InitMoves /\ [][NextMoves]_vars

\* First arguments of an inbound /usercamera/Zoom: the floats 100.0, 200.0
\* and 10.0 and a NaN, the integer 30, the strings "abc" and "30"
ZoomArgs ==
    {[t |-> TagF, a |-> Float(1120403456)],
     [t |-> TagF, a |-> Float(1128792064)],
     [t |-> TagF, a |-> Float(1092616192)],
     [t |-> TagF, a |-> Float(255 * Pow2(23) + Pow2(22))],
     [t |-> TagI, a |-> Integer(30)],
     [t |-> TagS, a |-> Str(SomeString)],
     [t |-> TagS, a |-> Str(<<51, 48>>)]}

\* Datagrams that reach the receiver: a zoom with one argument of each kind
\* (a blob too) or with none, a pose of six floats 1.0, of six integers 1,
\* of six strings "abc" and of five floats, another address, and bytes
\* with no NUL
Datagrams ==
    {buildOscMessage(addressZoom, <<za.t>>, <<za.a>>) : za \in ZoomArgs}
    \cup {writePaddedString(addressZoom) \o writePaddedString(<<Comma, TagB>>)
            \o BlobBytes(bytes) : bytes \in {<<97>>}}
    \cup {buildOscMessage(addressZoom, <<>>, <<>>),
          buildOscMessage(addressPose, [j \in 1..6 |-> TagF],
                          [j \in 1..6 |-> Float(1065353216)]),
          buildOscMessage(addressPose, [j \in 1..6 |-> TagI],
                          [j \in 1..6 |-> Integer(1)]),
          buildOscMessage(addressPose, [j \in 1..6 |-> TagS],
                          [j \in 1..6 |-> Str(SomeString)]),
          buildOscMessage(addressPose, [j \in 1..5 |-> TagF],
                          [j \in 1..5 |-> Float(1065353216)]),
          buildOscMessage(addressFov, <<TagF>>, <<Float(1065353216)>>),
          <<47, 97>>}

\* oscReceiver.on('message'): decode, then update the pose or the zoom
OscReceive ==
    /\ deployment = "server.js"
    /\ \E msg \in Datagrams :
        \E s \in {oscMessage(state, msg)}, parsed \in {parseOscMessage(msg)} :
            /\ PoseBounded(s)
            /\ state' = s
            /\ lastRequest' =
                 [kind |-> "osc",
                  zoom |-> IF parsed.kind = "msg" /\ parsed.address = addressZoom
                              /\ Len(parsed.args) >= 1
                           THEN parsed.args[1] ELSE Undefined]
    /\ UNCHANGED <<deployment, fovState, cfg, oscSent, captureVars, viewers, webVars, demuxVars, oscVars>>

InitCamera ==
    /\ deployment = "server.js"
    /\ state = InitialState
    /\ fovState = InitialFovState
    /\ cfg = InitialCfg
    /\ oscSent = <<>>
    /\ lastRequest = NoRequest
    /\ BridgeIdle /\ DemuxIdle /\ OscIdle /\ WebIdle

NextCamera ==
    \/ Move
    \/ OscReceive

SpecCamera == InitCamera /\ [][NextCamera]_vars

-----------------------------------------------------------------------------
(* server.js: the receiver's socket.  Datagrams wait in the socket's queue  *)
(* until the event loop hands the oldest to the 'message' handler.          *)

MaxInFlight == 2   \* datagrams the queue of the receiver's socket holds

OwnPort == 9000    \* oscReceiver.bind(9000, '0.0.0.0')

\* The datagrams a sender on the network addresses to the receiver: those
\* of Datagrams, and a pose of six floats under an address one character
\* longer and under one in lower case
Arrivals ==
    Datagrams
    \cup {buildOscMessage(addressPose \o <<50>>, [j \in 1..6 |-> TagF],
                          [j \in 1..6 |-> Float(1065353216)]),
          buildOscMessage([j \in 1..Len(addressPose) |->
                              IF addressPose[j] = 80 THEN 112 ELSE addressPose[j]],
                          [j \in 1..6 |-> TagF],
                          [j \in 1..6 |-> Float(1065353216)])}

\* A datagram from the network reaches the socket
Arrive ==
    /\ deployment = "server.js"
    /\ Len(inFlight) < MaxInFlight
    /\ \E msg \in Arrivals : inFlight' = Append(inFlight, msg)
    /\ UNCHANGED <<activeSessions, issued, cookie, allowPublicViewing, proxy,
                   cameraVars, captureVars, viewers, demuxVars, oscVars>>

\* The target of the broadcast is the receiver's own socket
Loops(c) ==
    /\ Sendable(c)
    /\ c.oscHost = InitialCfg.oscHost
    /\ c.oscPort = Fin(OwnPort * Unit)

\* The datagrams the last broadcast handed to the socket reach the
\* receiver's socket, when they are addressed to it and its queue has room
Route ==
    /\ deployment = "server.js"
    /\ oscSent # <<>> /\ Loops(cfg)
    /\ Len(inFlight) + Len(oscSent) <= MaxInFlight
    /\ inFlight' = inFlight \o oscSent
    /\ oscSent' = <<>>
    /\ UNCHANGED <<deployment, state, fovState, cfg, lastRequest,
                   activeSessions, issued, cookie, allowPublicViewing, proxy,
                   captureVars, viewers, demuxVars, oscVars>>

\* A 'message' handler that broadcasts the state it has updated
Deliver_echo ==
    /\ deployment = "server.js"
    /\ inFlight # <<>>
    /\ \E s \in {oscMessage(state, Head(inFlight))} :
            /\ PoseBounded(s)
            /\ state' = s
            /\ oscSent' = IF s # state THEN broadcastState(s) ELSE oscSent
    /\ lastRequest' = [kind |-> "osc", zoom |-> Undefined]
    /\ inFlight' = Tail(inFlight)
    /\ UNCHANGED <<deployment, fovState, cfg,
                   activeSessions, issued, cookie, allowPublicViewing, proxy,
                   captureVars, viewers, demuxVars, oscVars>>

\* oscReceiver.on('message') for the oldest datagram of the queue
Deliver ==
    /\ deployment = "server.js"
    /\ inFlight # <<>>
    /\ \E s \in {oscMessage(state, Head(inFlight))},
          parsed \in {parseOscMessage(Head(inFlight))} :
            /\ PoseBounded(s)
            /\ state' = s
            /\ lastRequest' =
                 [kind |-> "osc",
                  zoom |-> IF parsed.kind = "msg" /\ parsed.address = addressZoom
                              /\ Len(parsed.args) >= 1
                           THEN parsed.args[1] ELSE Undefined]
    /\ inFlight' = Tail(inFlight)
    /\ UNCHANGED <<deployment, fovState, cfg, oscSent,
                   activeSessions, issued, cookie, allowPublicViewing, proxy,
                   captureVars, viewers, demuxVars, oscVars>>

InitReceiver ==
    /\ deployment = "server.js"
    /\ state = InitialState
    /\ fovState = InitialFovState
    /\ cfg = InitialCfg
    /\ oscSent = <<>>
    /\ lastRequest = NoRequest
    /\ BridgeIdle /\ DemuxIdle /\ OscIdle /\ WebIdle

NextReceiver ==
    \/ Arrive
    \/ Deliver

SpecReceiver == InitReceiver /\ [][NextReceiver]_vars

\* POST /api/move with mode 'absolute'
AbsoluteMove == Move /\ lastRequest'.kind = "absolute"

\* The loop of the default configuration: the absolute moves of a client, at
\* any moment, their datagrams on the way to the receiver's own socket, and
\* the receiver
NextLoop ==
    \/ AbsoluteMove
    \/ Route
    \/ Deliver

SpecLoop == InitReceiver /\ [][NextLoop]_vars

-----------------------------------------------------------------------------
(* server.js: sessions and the protected endpoints.  A token is the number  *)
(* of the createSession() call that generated it; 0 is no cookie.           *)

MaxSessions == 2   \* calls of createSession()

\* A cookie value that createSession() never generates
ForgedToken == MaxSessions + 1

\* serverConfig.password: 'changeme'
serverPassword == Str(<<99, 104, 97, 110, 103, 101, 109, 101>>)

\* body.password of a login request: missing (or no JSON body), empty,
\* wrong, correct
LoginPasswords == {Undefined, Str(<<>>), Str(SomeString), serverPassword}

isValidSession(token) == token \in activeSessions

\* A requireAuth that accepts every request that carries a session cookie
requireAuth_anyCookie(sessionToken) == sessionToken # 0

\* requireAuth(req, res, callback): whether it runs the callback
requireAuth(sessionToken) == sessionToken # 0 /\ isValidSession(sessionToken)

\* The rest of the state of the server, for the actions on sessions
SessionFrame ==
    UNCHANGED <<deployment, state, fovState, cfg, oscSent, inFlight, allowPublicViewing,
                proxy, captureVars, viewers, demuxVars, oscVars>>

\* POST /api/login
Login ==
    /\ \E password \in LoginPasswords :
        IF password.k # "s" \/ password.s = <<>>
        THEN /\ lastRequest' = [kind |-> "login 400", zoom |-> Undefined]
             /\ UNCHANGED <<activeSessions, issued, cookie>>
        ELSE IF password = serverPassword
        THEN /\ issued < MaxSessions
             /\ issued' = issued + 1
             /\ activeSessions' = activeSessions \cup {issued + 1}
             /\ cookie' = issued + 1
             /\ lastRequest' = [kind |-> "login ok", zoom |-> Undefined]
        ELSE /\ lastRequest' = [kind |-> "login 401", zoom |-> Undefined]
             /\ UNCHANGED <<activeSessions, issued, cookie>>
    /\ SessionFrame

\* POST /api/logout: delete the session of the cookie, then clear the cookie
Logout ==
    /\ activeSessions' = activeSessions \ {cookie}
    /\ cookie' = 0
    /\ lastRequest' = [kind |-> "logout", zoom |-> Undefined]
    /\ UNCHANGED issued
    /\ SessionFrame

\* The setTimeout of createSession fires: activeSessions.delete(token)
Expire ==
    /\ \E token \in activeSessions : activeSessions' = activeSessions \ {token}
    /\ UNCHANGED <<issued, cookie, lastRequest>>
    /\ SessionFrame

\* The client picks the cookie of its next request: none, a token it was
\* given at some time, or one it made up
ClientCookie ==
    /\ \E token \in (0..issued) \cup {ForgedToken} :
        /\ token # cookie
        /\ cookie' = token
    /\ UNCHANGED <<activeSessions, issued, lastRequest>>
    /\ SessionFrame

\* The 401 response of requireAuth
Unauthorized ==
    /\ lastRequest' = [kind |-> "401", zoom |-> Undefined]
    /\ UNCHANGED <<deployment, state, fovState, cfg, oscSent, webVars,
                   captureVars, viewers, demuxVars, oscVars>>

\* POST /api/move with the cookie of the client.  The requests of this
\* specification are absolute moves of the zoom (or fov).
ApiMove ==
    IF requireAuth(cookie)
    THEN /\ Move \/ MoveFov
         /\ lastRequest'.kind # "delta"
         /\ \A f \in PoseFields : state'[f] = state[f] /\ fovState'[f] = fovState[f]
    ELSE Unauthorized

\* POST /api/config with the cookie of the client
ApiConfig == IF requireAuth(cookie) THEN Config ELSE Unauthorized

\* GET /api/state: res.end(JSON.stringify({state, cfg}))
ApiState ==
    /\ lastRequest' = [kind |-> "state", zoom |-> Undefined]
    /\ UNCHANGED <<deployment, state, fovState, cfg, oscSent, webVars,
                   captureVars, viewers, demuxVars, oscVars>>

InitAuth ==
    /\ deployment \in {"server.js", "part_000"}
    /\ state = InitialState
    /\ fovState = InitialFovState
    /\ cfg = InitialCfg
    /\ oscSent = <<>>
    /\ lastRequest = NoRequest
    /\ inFlight = <<>>
    /\ activeSessions = {} /\ issued = 0 /\ cookie = 0
    /\ allowPublicViewing \in BOOLEAN
    /\ proxy = NoProxy
    /\ BridgeIdle /\ DemuxIdle /\ OscIdle

NextAuth ==
    \/ Login
    \/ Logout
    \/ Expire
    \/ ClientCookie
    \/ ApiMove
    \/ ApiConfig
    \/ ApiState

SpecAuth == InitAuth /\ [][NextAuth]_vars

\* What the callbacks of the protected endpoints record
ApiKinds == {"absolute", "delta", "bad json", "config"}

\* What a step of the server may do to the camera, the configuration and
\* the sessions, given the cookie of the request
Gated ==
    /\ (state' # state \/ fovState' # fovState \/ cfg' # cfg)
            => cookie \in activeSessions
    /\ (lastRequest'.kind \in ApiKinds /\ cookie' = cookie
                /\ activeSessions' = activeSessions)
            => cookie \in activeSessions
    /\ (lastRequest'.kind = "401" /\ lastRequest' # lastRequest)
            => /\ ~(cookie \in activeSessions)
               /\ <<state', fovState', cfg'>> = <<state, fovState, cfg>>
    /\ ~(activeSessions' \subseteq activeSessions)
            => lastRequest'.kind = "login ok"
    /\ lastRequest'.kind \in {"login 400", "login 401"}
            => activeSessions' \subseteq activeSessions

\* C36: camera state and configuration change in an HTTP request only when
\* the request carries a token that is in activeSessions; a /api/move or
\* /api/config request without one is answered 401 and changes neither; a
\* session is created by a login with the correct password only, and the
\* tokens in activeSessions are tokens createSession() generated.
C36_AuthRequired ==
    /\ [](activeSessions \subseteq 1..issued)
    /\ [][Gated]_vars

\* C36 witness: a client logged in, moved the zoom and logged out; the
\* request it then made with the token of that session was answered 401
C36_Witness ==
    /\ lastRequest.kind = "401"
    /\ cookie = 1 /\ issued >= 1 /\ activeSessions = {}
    /\ state.zoom # InitialState.zoom

\* C37: a GET /api/state request is answered with the camera state and the
\* configuration only if it carries the token of an active session or
\* allowPublicViewing is true.
C37_StateNeedsPublic ==
    [][(lastRequest'.kind = "state" /\ lastRequest' # lastRequest)
        => (cookie \in activeSessions \/ allowPublicViewing)]_vars

-----------------------------------------------------------------------------
(* server.js: GET /api/spout, the proxy of the bridge's /mjpeg stream.      *)
(* proxy.pc is where the upstream request (proxyReq) is: "pending" before   *)
(* its response, "piping" after it, "destroyed" after proxyReq.destroy(),   *)
(* "done" when no event of it is to come.  proxy.res is the response to     *)
(* the client: "open" before its headers, "streaming" after writeHead,      *)
(* "ended", "destroyed", or "threw" when writeHead was called after the     *)
(* headers were sent (ERR_HTTP_HEADERS_SENT).  proxy.writeHeads counts the  *)
(* times the handlers write the response headers.                           *)

\* The rest of the state of the server, for the actions of the proxy
ProxyFrame ==
    UNCHANGED <<cameraVars, inFlight, activeSessions, issued, cookie, allowPublicViewing,
                captureVars, viewers, demuxVars, oscVars>>

\* res.writeHead(...) on the response to the client
WriteHead(p, next) ==
    [p EXCEPT !.writeHeads = @ + 1,
              !.res = IF p.res = "open" THEN next ELSE "threw"]

\* The request arrives: the gate on allowPublicViewing, then http.request
ApiSpout ==
    /\ proxy.pc \in {"none", "done"}
    /\ proxy' = IF ~allowPublicViewing /\ ~requireAuth(cookie)
                THEN [pc |-> "done", headersWritten |-> FALSE,
                      res |-> "ended", writeHeads |-> 1]
                ELSE [pc |-> "pending", headersWritten |-> FALSE,
                      res |-> "open", writeHeads |-> 0]
    /\ ProxyFrame

\* The callback of http.request: the upstream response has arrived
UpstreamResponse ==
    /\ proxy.pc = "pending"
    /\ proxy' = [WriteHead(proxy, "streaming") EXCEPT !.headersWritten = TRUE,
                                                      !.pc = "piping"]
    /\ ProxyFrame

\* spoutRes.pipe(res): the upstream response ends, and so does the response
UpstreamEnd ==
    /\ proxy.pc = "piping"
    /\ proxy' = [proxy EXCEPT !.pc = "done", !.res = "ended"]
    /\ ProxyFrame

\* proxyReq.on('timeout'): the socket was idle for 5 s
ProxyTimeout ==
    /\ proxy.pc \in {"pending", "piping"}
    /\ proxy' = IF proxy.headersWritten
                THEN [proxy EXCEPT !.pc = "destroyed", !.res = "destroyed"]
                ELSE [WriteHead(proxy, "ended") EXCEPT !.pc = "destroyed"]
    /\ ProxyFrame

\* proxyReq.on('error'): the connection failed, or the request was destroyed
\* before its response ('socket hang up')
ProxyError ==
    /\ proxy.pc \in {"pending", "piping", "destroyed"}
    /\ proxy' = IF proxy.headersWritten
                THEN [proxy EXCEPT !.pc = "done", !.res = "destroyed"]
                ELSE [WriteHead(proxy, "ended") EXCEPT !.pc = "done"]
    /\ ProxyFrame

\* The destroyed request closes without an 'error' event
ProxyClose ==
    /\ proxy.pc = "destroyed"
    /\ proxy' = [proxy EXCEPT !.pc = "done"]
    /\ ProxyFrame

InitProxy ==
    /\ deployment = "server.js"
    /\ state = InitialState
    /\ fovState = InitialFovState
    /\ cfg = InitialCfg
    /\ oscSent = <<>>
    /\ lastRequest = NoRequest
    /\ inFlight = <<>>
    /\ activeSessions = {} /\ issued = 0 /\ cookie = 0
    /\ allowPublicViewing \in BOOLEAN
    /\ proxy = NoProxy
    /\ BridgeIdle /\ DemuxIdle /\ OscIdle

NextProxy ==
    \/ Login
    \/ Logout
    \/ Expire
    \/ ClientCookie
    \/ ApiSpout
    \/ UpstreamResponse
    \/ UpstreamEnd
    \/ ProxyTimeout
    \/ ProxyError
    \/ ProxyClose

SpecProxy == InitProxy /\ [][NextProxy]_vars

\* C38: the handlers of a GET /api/spout request write the response headers
\* at most once, in whatever order the upstream request's response,
\* 'timeout' and 'error' events come.
C38_HeadersOnce == proxy.writeHeads <= 1

\* The datagrams handed to the socket or waiting in the receiver's queue
Pending == Len(oscSent) + Len(inFlight)

\* C35: the 'message' handler sends nothing: handling a datagram leaves the
\* datagrams handed to the socket as they are and takes one datagram off
\* the queue.  Datagrams are handed to the socket by /api/move only, and the
\* camera state changes only in a move or in the handling of one queued
\* datagram, so a broadcast that loops back to the receiver's own port
\* updates the state at most once per datagram and then dies out.
C35_NoEcho ==
    [][/\ (Len(inFlight') < Len(inFlight))
            => oscSent' = oscSent /\ inFlight' = Tail(inFlight)
       /\ Pending' > Pending => lastRequest'.kind \in {"absolute", "delta"}
       /\ (oscSent' # oscSent /\ oscSent' # <<>>)
            => lastRequest'.kind \in {"absolute", "delta"}
       /\ state' # state
            => \/ Len(inFlight') < Len(inFlight)
               \/ lastRequest'.kind \in {"absolute", "delta"}]_vars

\* C35 witness: the two datagrams of a move to x = 1 came back to the
\* receiver and were handled, the pose is the six floats of the datagram,
\* and nothing is on the way any more
C35_Witness ==
    /\ lastRequest.kind = "osc"
    /\ \A f \in PoseFields : state[f] = Float(1065353216)
    /\ oscSent = <<>> /\ inFlight = <<>>

\* The step runs the 'message' handler on the oldest datagram of the queue
Handled == Len(inFlight') < Len(inFlight)

\* C34: the 'message' handler changes the camera state only so: a datagram
\* whose address is exactly /usercamera/Pose and that resolves at least 6
\* arguments sets x, y, z, pitch, yaw, roll to arguments 0..5 and leaves the
\* zoom; one whose address is exactly /usercamera/Zoom and that resolves at
\* least 1 argument changes the zoom only; every other datagram changes
\* none of the seven fields; and no datagram changes the configuration.
C34_ReceiveEffect ==
    [][Handled =>
        LET parsed == parseOscMessage(Head(inFlight))
            args == parsed.args
            isPose == parsed.kind = "msg" /\ parsed.address = addressPose /\ Len(args) >= 6
            isZoom == parsed.kind = "msg" /\ parsed.address = addressZoom /\ Len(args) >= 1
        IN  /\ cfg' = cfg
            /\ isPose => /\ <<state'.x, state'.y, state'.z>> = <<args[1], args[2], args[3]>>
                         /\ <<state'.pitch, state'.yaw, state'.roll>>
                                = <<args[4], args[5], args[6]>>
                         /\ state'.zoom = state.zoom
            /\ (~isPose /\ isZoom) => \A f \in PoseFields : state'[f] = state[f]
            /\ (~isPose /\ ~isZoom) => state' = state]_vars

\* C34 witness: a zoom datagram of the integer 30 and then a pose datagram
\* of six floats 1.0 were handled while a zoom datagram waits: the pose is
\* six floats 1.0 and the zoom is still 30
C34_Witness ==
    /\ lastRequest.kind = "osc"
    /\ \A f \in PoseFields : state[f] = Float(1065353216)
    /\ state.zoom = Fin(30 * Unit)
    /\ Len(inFlight) = 1
    /\ parseOscMessage(inFlight[1]).address = addressZoom

\* A number within [lo, hi], both in tenths
InRange(a, lo, hi) == a.k = "num" /\ lo <= a.v /\ a.v <= hi

\* C5: after every /api/move request, whatever numbers it carries, the zoom
\* of server.js is within [20,150] and the fov of the older deployment is
\* within [1,179].
C5_ClampUnderMoves ==
    /\ InRange(state.zoom, ZoomMin, ZoomMax)
    /\ InRange(fovState.fov, FovMin, FovMax)

\* A delta of +Infinity has been added to the zoom and bounded to 150
C5_Witness ==
    /\ lastRequest.kind = "delta"
    /\ lastRequest.zoom.k = "inf"
    /\ lastRequest.zoom.v = 1
    /\ state.zoom = Fin(ZoomMax)

\* The delta field of a body that goes with a state component
DeltaOf == [x |-> "dx", y |-> "dy", z |-> "dz", pitch |-> "dpitch",
            yaw |-> "dyaw", roll |-> "droll", zoom |-> "dzoom"]

\* What a move is to do to one component: in absolute mode take the field
\* when it is a number, in delta mode add the delta field when it is a
\* number, and otherwise leave the component as it is
Moved(absolute, old, new, v, d) ==
    IF absolute
    THEN new = (IF IsNumber(v) THEN v ELSE old)
    ELSE IF IsNumber(d)
         THEN IsNumber(new) /\ (IsNumber(old) => new = JsAdd(old, d))
         ELSE new = old

\* C22: a /api/move request of server.js adds each numeric delta field to
\* its component (delta mode) or overwrites the component with each numeric
\* field (absolute mode), leaves every other component unchanged, and then
\* bounds the zoom.
C22_MoveEffect ==
    [][(deployment = "server.js" /\ lastRequest'.kind \in {"absolute", "delta"})
        => \E pose \in PoseParts :
             LET absolute == lastRequest'.kind = "absolute"
                 body == MakeBody(absolute, pose, lastRequest'.zoom)
             IN  /\ \A f \in PoseFields :
                        Moved(absolute, state[f], state'[f], body[f], body[DeltaOf[f]])
                 /\ \E zoom \in {IF absolute
                                  THEN (IF IsNumber(body.zoom) THEN body.zoom ELSE state.zoom)
                                  ELSE AddTo(state.zoom, body.dzoom)} :
                        state'.zoom = Val(boundZoom([state EXCEPT !.zoom = zoom]).zoom)
                                         \/ state'.zoom = boundZoom([state EXCEPT !.zoom = zoom]).zoom]_vars

\* C23: when the send of an outbound datagram throws, the move still
\* mutates the state and is answered as a move, nothing reaches the socket,
\* and no request other than a move hands a datagram to the socket (nothing
\* is sent again later).
C23_SendFailureDropped ==
    [][/\ lastRequest'.kind \in {"none", "absolute", "delta", "bad json", "config"}
       /\ lastRequest'.kind \notin {"absolute", "delta"} => oscSent' = oscSent
       /\ (lastRequest'.kind \in {"absolute", "delta"} /\ ~Sendable(cfg))
            => /\ oscSent' = <<>>
               /\ \E pose \in PoseParts :
                    LET body == MakeBody(lastRequest'.kind = "absolute", pose,
                                         lastRequest'.zoom)
                    IN  IF deployment = "server.js"
                        THEN state' = moveState(state, body)
                        ELSE fovState' = moveFovState(fovState, body)]_vars

\* C23 witness: with the port set to "abc" (NaN) a delta move was answered,
\* moved x and handed nothing to the socket
C23_Witness ==
    /\ deployment = "server.js"
    /\ cfg.oscPort = NaN
    /\ lastRequest.kind = "delta"
    /\ state.x = Fin(2 * Unit)
    /\ oscSent = <<>>

\* C24: an inbound datagram whose handling throws changes no state field.
\* The handling of a pose throws in toFixed() exactly when a component it
\* stored is not a number, so no datagram changes a pose component to a
\* value that is not a number.
C24_FailedDatagramDiscarded ==
    [][lastRequest'.kind = "osc"
        => \A f \in PoseFields : state'[f] # state[f] => IsNumber(state'[f])]_vars

\* The argument values a receiver reads from a datagram of floats, to the
\* nearest tenth
Decoded(datagram) ==
    LET args == parseOscMessage(datagram).args
    IN  [j \in DOMAIN args |-> FloatValue(args[j].v)]

\* C25: the two datagrams a move of server.js hands to the socket carry the
\* pose and the zoom of the state as the move left it, and they stay as
\* they are while inbound datagrams and configuration requests are handled
\* before they are sent.
C25_BroadcastSnapshot ==
    [][IF lastRequest'.kind \in {"absolute", "delta"}
       THEN (deployment = "server.js" /\ Sendable(cfg))
            => /\ Len(oscSent') = 2
               /\ Decoded(oscSent'[1])
                    = <<Val(ToNumber(state'.x)), Val(ToNumber(state'.y)),
                        Val(ToNumber(state'.z)), Val(ToNumber(state'.pitch)),
                        Val(ToNumber(state'.yaw)), Val(ToNumber(state'.roll))>>
               /\ Decoded(oscSent'[2]) = <<Val(ToNumber(state'.zoom))>>
       ELSE oscSent' = oscSent]_vars

\* C25 witness: the datagrams of a move carry the zoom 45 of the call while
\* an inbound datagram handled since has made the zoom 100
C25_Witness ==
    /\ lastRequest.kind = "osc"
    /\ Len(oscSent) = 2
    /\ Decoded(oscSent[2]) = <<Fin(45 * Unit)>>
    /\ Val(state.zoom) = Fin(100 * Unit)

\* C6: after any interleaving of /api/move requests and inbound datagrams,
\* state.zoom is a number within [20,150].
C6_ZoomInRange == InRange(Val(state.zoom), ZoomMin, ZoomMax)

-----------------------------------------------------------------------------
(* Properties of the capture fallback chain (SpecCapture)                   *)

\* C1: at any instant at most one backend process is alive without kill()
\* having been called on it.
C1_AtMostOneLiveBackend == Cardinality(Live(procs)) <= 1

\* C2: in automatic mode, when the direct Spout and the stream backends have
\* produced no frame and the third backend has been launched, the manager is
\* Active on the third backend and no launch found an earlier process alive
\* and un-killed.
C2_FallbackOrdering ==
    (/\ mode = "camera" /\ Len(procs) = 3
     /\ procs[1].frameCount = 0 /\ procs[2].frameCount = 0)
    => (startup = "active" /\ committed = 3 /\ ~overlapped)

\* C4: in automatic mode the manager commits to a backend only if that
\* backend's own parser has emitted at least one complete frame.
C4_CommitNeedsOwnFrame ==
    (mode = "camera" /\ committed # 0) => procs[committed].frameCount >= 1

\* C9: in automatic mode, once the fallback chain has resolved without any
\* backend ever having produced a frame, the relay has failed: process.exit(1)
\* was called instead of committing to a backend.
C9_ExhaustedMeansFailed ==
    (mode = "camera" /\ startup \in {"active", "failed"} /\ published.count = 0)
    => exitStatus = "1"

\* C10: whenever the reconnect timer fires that was set when the stream process
\* the manager was Active on exited, the stream backend is launched again.
C10_ActiveStreamRelaunched ==
    [][\A t \in timers :
          (/\ t.kind = "reconnect" /\ t \notin timers'
           /\ procs[t.proc].kind = "stream" /\ procs[t.proc].exitedActive)
          => (/\ Len(procs') = Len(procs) + 1
              /\ procs'[Len(procs')].kind = "stream")]_vars

-----------------------------------------------------------------------------
(* Properties of the /mjpeg viewers (SpecMux)                               *)

\* C8: a sendFrame() call that ran after the latest publication wrote exactly
\* the most recently published frame, and two connections whose latest calls
\* ran with no publication in between wrote the same bytes.
C8_LastWriteWins ==
    /\ \A v \in ViewerIds :
          (viewers[v].attached /\ published.count > 0
           /\ viewers[v].at = published.count)
          => (viewers[v].segs = 1 /\ viewers[v].body = published.frame)
    /\ \A v, w \in ViewerIds :
          (viewers[v].attached /\ viewers[w].attached
           /\ viewers[v].at = viewers[w].at)
          => viewers[v].body = viewers[w].body

\* C13: every call of sendFrame() by a connection's interval writes one
\* segment when a frame has been published, and nothing otherwise; the
\* segment declares the length of the body it carries, which is the latest
\* published frame.
C13_TickWritesLatest ==
    [][\A v \in ViewerIds :
          (viewers[v].attached /\ viewers'[v].calls = viewers[v].calls + 1)
          => IF published.count > 0
             THEN /\ viewers'[v].segs = 1
                  /\ viewers'[v].declared = Len(viewers'[v].body)
                  /\ viewers'[v].body = published.frame
             ELSE /\ viewers'[v].segs = 0
                  /\ viewers'[v].body = <<>>]_vars

\* A connection has ticked twice with no publication in between, and its
\* second tick wrote the published frame again
C13_Witness ==
    \E v \in ViewerIds :
        /\ viewers[v].attached
        /\ viewers[v].calls >= 3
        /\ viewers[v].prevAt = viewers[v].at
        /\ viewers[v].at >= 1
        /\ viewers[v].segs = 1
        /\ viewers[v].body = published.frame
        /\ viewers[v].declared = Len(published.frame)

\* C14: once a connection has detached its interval runs no more, and a
\* step of one connection changes neither the producer nor another
\* connection.
C14_DetachStopsTimer ==
    [][/\ \A v \in ViewerIds :
            (viewers[v].attached /\ ~viewers[v].open)
            => viewers'[v].calls = viewers[v].calls
       /\ viewers' # viewers => captureVars' = captureVars
       /\ \A v, w \in ViewerIds :
            (v # w /\ viewers'[v] # viewers[v]) => viewers'[w] = viewers[w]]_vars

\* The timers of the fallback chain: the 3 s test and the 2 s probe of the
\* direct Spout capture, and the 3 s check of the stream
ProbeTimers(ts) == {t \in ts : t.kind \in {"testTimeout", "spoutProbe", "streamProbe"}}

\* C16: while the start-up chain has resolved true on a backend, every
\* process that is launched is of that backend's kind (a relaunch of it),
\* and no probe or check of the fallback chain is armed.
C16_NoLaunchWhileActive ==
    [][(startup = "active" /\ startup' = "active")
         => /\ \A i \in DOMAIN procs' \ DOMAIN procs :
                    committed # 0 /\ procs'[i].kind = procs[committed].kind
            /\ ProbeTimers(timers') \subseteq ProbeTimers(timers)]_vars

\* C16 witness: the direct Spout capture was committed by its 2 s probe,
\* published a frame and then exited; it is still the only process ever
\* launched and no timer is pending
C16_Witness ==
    /\ startup = "active" /\ committed = 1 /\ Len(procs) = 1
    /\ procs[1].kind = "spout" /\ procs[1].exited /\ published.count >= 1
    /\ now >= 2 /\ timers = {}

\* C28: every frame that is published was demuxed from the output of the
\* most recently launched backend process.
C28_SingleWriter ==
    [][published' # published => published'.from = Len(procs')]_vars

\* C29: whenever a launched backend process is alive and kill() was not
\* called on it, the global captureProcess handle refers to it (no callback
\* of an earlier launch has cleared the handle).
C29_HandleTracksLive == \A i \in Live(procs) : captureProcess = i

\* C30: at the moment the start-up chain resolves true, the backend it
\* commits to has a process that is alive and that captureProcess refers to.
C30_CommitToLiveProcess ==
    [][(startup # "active" /\ startup' = "active")
        => /\ committed' \in DOMAIN procs'
           /\ Alive(procs'[committed'])
           /\ captureProcess' = committed']_vars

\* The start-up chain has resolved: true (Active) or false (Failed)
Resolved == startup \in {"active", "failed"}

SpoutWindow == 2    \* the setTimeout of the direct Spout probe, in seconds
StreamWindow == 3   \* the setTimeout of the stream check, in seconds

\* C31: in automatic mode, while the process runs and its timers fire, the
\* start-up chain eventually resolves true or false, and it is never still
\* probing later than 2 s + 3 s after the start, whatever the backend
\* processes write, and whenever they exit or fail.
C31_ProbeTerminates ==
    /\ [](mode = "camera" /\ ~Resolved => now <= SpoutWindow + StreamWindow)
    /\ [](mode = "camera" /\ startup = "probingSpout" => now <= SpoutWindow)
    /\ (mode = "camera") ~> (Resolved \/ ~Running)

\* C31 witness: the chain resolved true at 5 s, after the direct Spout probe
\* and the stream check both failed
C31_Witness ==
    /\ mode = "camera" /\ startup = "active" /\ now = SpoutWindow + StreamWindow
    /\ Len(procs) = 3 /\ committed = 3
    /\ procs[1].kind = "spout" /\ procs[2].kind = "stream"

\* C32: once a frame has been published the latest frame is never cleared,
\* and every sendFrame() call of every viewer writes the frame published
\* last, also after the process that wrote it has exited and while a later
\* backend is being probed.
C32_StaleFrameServed ==
    [][published.count > 0
        => /\ currentFrameBuffer' = published'.frame
           /\ currentFrameBuffer' # <<>>
           /\ \A v \in ViewerIds :
                viewers'[v].calls # viewers[v].calls
                    => /\ viewers'[v].segs = 1
                       /\ viewers'[v].body = currentFrameBuffer
                       /\ viewers'[v].body = published.frame]_vars

\* C32 witness: the direct Spout process wrote a frame and has exited, the
\* stream is being probed without having written a frame, and a viewer's
\* calls have written the Spout frame
C32_Witness ==
    /\ startup = "probingStream"
    /\ Len(procs) = 2 /\ procs[1].exited /\ procs[2].frameCount = 0
    /\ published.from = 1
    /\ \E v \in ViewerIds :
        /\ viewers[v].calls = MaxTicks
        /\ viewers[v].body = FrameOf(1)

\* C17: with CAPTURE_MODE pinned to stream or obs, every process ever
\* launched is of the pinned backend, and no probe of the ordered search
\* is armed.
C17_PinnedOnly ==
    mode \in {"stream", "obs"}
        => /\ \A i \in DOMAIN procs : procs[i].kind = mode
           /\ ProbeTimers(timers) = {}

\* C15: SIGINT leaves no backend process alive and un-killed and no viewer
\* connection open or ticking; after it no process is launched and no
\* viewer is sent a frame.
C15_ShutdownStopsAll ==
    [][/\ exitStatus' # "running"
          => (/\ Live(procs') = {}
              /\ \A v \in ViewerIds : ~viewers'[v].open /\ ~viewers'[v].interval)
       /\ exitStatus # "running"
          => (/\ Len(procs') = Len(procs)
              /\ \A v \in ViewerIds : viewers'[v].calls = viewers[v].calls)]_vars

\* C8 witness: two frames were published between two consecutive ticks of a
\* connection, whose latest tick and another connection's then wrote the
\* newest frame.
C8_Witness ==
    \E v, w \in ViewerIds :
        /\ v # w /\ viewers[v].attached /\ viewers[w].attached
        /\ viewers[v].prevAt >= 1
        /\ viewers[v].at >= viewers[v].prevAt + 2
        /\ viewers[v].at = published.count /\ viewers[w].at = published.count
        /\ viewers[v].body = published.frame

=============================================================================
